---- MODULE Spec2Model ----
(***************************************************************************)
(* A model of the Decree transcript state machine (src/src/decree.rs):     *)
(* new / extend / add / add_serial / get_challenge over an underlying      *)
(* Merlin transcript, which is modelled by the history of the calls made   *)
(* on it.  Strings (&'static str) are sequences of byte codes over a small *)
(* alphabet, so that the lexicographic order of str is the real one.       *)
(***************************************************************************)
EXTENDS Integers, Sequences, FiniteSets, TLC

(* ------------------------------ bounds -------------------------------- *)

\* Longest input-label slice a caller passes to new / extend.
MaxInputs == 2
\* Longest challenge-label slice a caller passes to new / extend.
MaxChallenges == 2
\* Longest history of calls on the underlying Merlin transcript that is explored.
MaxHistory == 5

\* Longest history of the runs that start from a drained first phase.
MaxDrainedHistory == 6

\* Longest history of each of two Decrees run side by side.
MaxPairHistory == 4
\* Largest number of fields of a struct that derives Inscribe.
MaxMembers == 2

(* ------------------------------ inputs -------------------------------- *)

\* Labels: "b" and "ab" as byte strings ("ab" < "b": the order of str is
\* neither the order of the lengths nor the order of the last bytes).
Labels == { <<2>>, <<1, 2>> }
\* Labels the callers use for challenges (they may also be input labels).
ChallengeLabels == Labels
\* Protocol names.
Names == { <<7>> }
\* Lengths of the destination buffers handed to get_challenge.
DestLens == { 16, 32 }

RECURSIVE SeqsUpTo(_, _)
SeqsUpTo(S, n) ==
    IF n = 0 THEN { <<>> }
    ELSE LET shorter == SeqsUpTo(S, n - 1)
         IN  shorter \cup { Append(s, x) : s \in shorter, x \in S }

\* Values handed to add_serial: a u32 and a value of a type BCS cannot
\* serialize (bcs::to_bytes returns Err for it).
SerialInputs == { [ty |-> "u32", v |-> 270], [ty |-> "f32", v |-> 0] }

\* The slices a caller passes to new / extend.
InputSlices == SeqsUpTo(Labels, MaxInputs)

ChallengeSlices == SeqsUpTo(ChallengeLabels, MaxChallenges)

(* ------------------------------ error.rs ------------------------------ *)

Error_new(e_type, msg) == [err_type |-> e_type, err_string |-> msg]

new_invalid_label(msg) == Error_new("InvalidLabel", msg)

new_invalid_challenge(msg) == Error_new("InvalidChallenge", msg)

new_init_fail(msg) == Error_new("InitFail", msg)

new_extend_fail(msg) == Error_new("ExtendFail", msg)

new_general(msg) == Error_new("General", msg)

\* The error slot of an Ok(..) result.
NoError == Error_new("None", "")

(* --------------------- byte vectors (FSInput) ------------------------- *)

\* A byte vector is either explicit bytes (kind "bytes") or the 64-byte output
\* of a TupleHash-256, identified by its customization string and the inputs
\* it absorbed (kind "digest").
RawBytes(b) == [kind |-> "bytes", bytes |-> b, mark |-> <<>>, absorbed |-> <<>>]

NoData == [kind |-> "none", bytes |-> <<>>, mark |-> <<>>, absorbed |-> <<>>]

\* bcs::to_bytes: a u32 is its four bytes, little endian; a type BCS does not
\* support is an error.
to_bytes(input) ==
    IF input.ty = "u32"
    THEN [ok |-> TRUE,
          val |-> RawBytes(<< input.v % 256, (input.v \div 256) % 256,
                              (input.v \div 65536) % 256,
                              (input.v \div 16777216) % 256 >>)]
    ELSE [ok |-> FALSE, val |-> NoData]

(* -------------------------- merlin::Transcript ------------------------ *)

Transcript_new(name) ==
    << [op |-> "new", label |-> name, data |-> NoData, len |-> 0] >>

append_message(t, label, message) ==
    Append(t, [op |-> "append_message", label |-> label, data |-> message, len |-> 0])

challenge_bytes(t, label, destlen) ==
    Append(t, [op |-> "challenge_bytes", label |-> label, data |-> NoData, len |-> destlen])

(* ------------------------ slices and hash maps ------------------------ *)

\* str's Ord: lexicographic comparison of the bytes.
str_lt(a, b) ==
    \E i \in 1..Len(b) :
        /\ i <= Len(a) + 1
        /\ \A j \in 1..(i - 1) : a[j] = b[j]
        /\ (i = Len(a) + 1 \/ a[i] < b[i])

\* One step of an insertion sort: x placed into the sorted sequence s, after
\* the elements that are not greater (the sort is stable).
RECURSIVE sort_insert(_, _)
sort_insert(s, x) ==
    IF s = <<>> THEN << x >>
    ELSE IF str_lt(x, Head(s)) THEN << x >> \o s
    ELSE << Head(s) >> \o sort_insert(Tail(s), x)

\* slice::sort on a Vec of strings.
RECURSIVE sort(_)
sort(v) ==
    IF v = <<>> THEN <<>>
    ELSE sort_insert(sort(SubSeq(v, 1, Len(v) - 1)), v[Len(v)])

\* slice::contains.
contains(v, x) == \E i \in 1..Len(v) : v[i] = x

\* HashMap::new, HashMap::contains_key, HashMap::insert.
HashMap_new == [k \in {} |-> NoData]

contains_key(m, k) == k \in DOMAIN m

insert(m, k, v) == [x \in DOMAIN m \cup {k} |-> IF x = k THEN v ELSE m[x]]

\* vector_is_distinct with Iterator::any in place of Iterator::all.
vector_is_distinct_any(elts) ==
    \E i \in 1..Len(elts) : \A j \in 1..(i - 1) : elts[j] # elts[i]

\* vector_is_distinct that never finds a repeated element.
vector_is_distinct_unchecked(elts) == Len(elts) >= 0

\* Checks that all elements of a slice are distinct: every insertion into the
\* HashSet is a new element.
vector_is_distinct(elts) ==
    \A i \in 1..Len(elts) : \A j \in 1..(i - 1) : elts[j] # elts[i]

(* --------------------- Inscribe (derived get_inscription) ------------- *)

INSCRIBE_LENGTH == 64

\* Length in bytes of a byte vector.
ByteLen(x) == IF x.kind = "digest" THEN INSCRIBE_LENGTH ELSE Len(x.bytes)

\* The table the derive builds: sort name -> member; a later member with the
\* same sort name replaces the earlier one (HashMap::insert).
member_table(members) ==
    [s \in { members[i].sort_ident : i \in 1..Len(members) } |->
        members[CHOOSE i \in 1..Len(members) :
                    /\ members[i].sort_ident = s
                    /\ \A j \in (i + 1)..Len(members) : members[j].sort_ident # s]]

\* The sort names, one per member, sorted.
member_vec(members) == sort([i \in 1..Len(members) |-> members[i].sort_ident])

\* get_inscription that does not absorb additional data that are empty.
RECURSIVE get_inscription_skip_empty_addl(_, _, _)
get_inscription_skip_empty_addl(self, i, hasher) ==
    LET names == member_vec(self.members)
    IN  IF i > Len(names)
        THEN IF self.addl.ok
             THEN [ok |-> TRUE, err |-> NoError,
                   val |-> [kind |-> "digest", bytes |-> <<>>, mark |-> self.mark,
                            absorbed |-> IF self.addl.val.bytes = <<>> THEN hasher
                                        ELSE Append(hasher, self.addl.val)]]
             ELSE [ok |-> FALSE, err |-> self.addl.err, val |-> NoData]
        ELSE LET current_member == member_table(self.members)[names[i]]
             IN  CASE current_member.handling = "Recurse" ->
                        LET sub == get_inscription_skip_empty_addl(current_member.val, 1, <<>>)
                        IN  IF sub.ok
                            THEN get_inscription_skip_empty_addl(self, i + 1, Append(hasher, sub.val))
                            ELSE sub
                  [] current_member.handling = "Serialize" ->
                        LET serial_out == to_bytes(current_member.val)
                        IN  IF serial_out.ok
                            THEN get_inscription_skip_empty_addl(self, i + 1,
                                                      Append(hasher, serial_out.val))
                            ELSE [ok |-> FALSE,
                                  err |-> new_general("Could not serialize Value"),
                                  val |-> NoData]
                  [] OTHER -> get_inscription_skip_empty_addl(self, i + 1, hasher)

\* get_inscription that absorbs the inputs of a Recurse member one by one, in
\* place of its 64-byte inscription.
RECURSIVE get_inscription_inline_nested(_, _, _)
get_inscription_inline_nested(self, i, hasher) ==
    LET names == member_vec(self.members)
    IN  IF i > Len(names)
        THEN IF self.addl.ok
             THEN [ok |-> TRUE, err |-> NoError,
                   val |-> [kind |-> "digest", bytes |-> <<>>, mark |-> self.mark,
                            absorbed |-> Append(hasher, self.addl.val)]]
             ELSE [ok |-> FALSE, err |-> self.addl.err, val |-> NoData]
        ELSE LET current_member == member_table(self.members)[names[i]]
             IN  CASE current_member.handling = "Recurse" ->
                        LET sub == get_inscription_inline_nested(current_member.val, 1, <<>>)
                        IN  IF sub.ok
                            THEN get_inscription_inline_nested(self, i + 1, hasher \o sub.val.absorbed)
                            ELSE sub
                  [] current_member.handling = "Serialize" ->
                        LET serial_out == to_bytes(current_member.val)
                        IN  IF serial_out.ok
                            THEN get_inscription_inline_nested(self, i + 1,
                                                      Append(hasher, serial_out.val))
                            ELSE [ok |-> FALSE,
                                  err |-> new_general("Could not serialize Value"),
                                  val |-> NoData]
                  [] OTHER -> get_inscription_inline_nested(self, i + 1, hasher)

\* get_inscription that reports the failure of a Recurse member as an error of
\* its own.
RECURSIVE get_inscription_wrap_nested(_, _, _)
get_inscription_wrap_nested(self, i, hasher) ==
    LET names == member_vec(self.members)
    IN  IF i > Len(names)
        THEN IF self.addl.ok
             THEN [ok |-> TRUE, err |-> NoError,
                   val |-> [kind |-> "digest", bytes |-> <<>>, mark |-> self.mark,
                            absorbed |-> Append(hasher, self.addl.val)]]
             ELSE [ok |-> FALSE, err |-> self.addl.err, val |-> NoData]
        ELSE LET current_member == member_table(self.members)[names[i]]
             IN  CASE current_member.handling = "Recurse" ->
                        LET sub == get_inscription_wrap_nested(current_member.val, 1, <<>>)
                        IN  IF sub.ok
                            THEN get_inscription_wrap_nested(self, i + 1, Append(hasher, sub.val))
                            ELSE [ok |-> FALSE,
                                  err |-> new_general("Could not inscribe Value"),
                                  val |-> NoData]
                  [] current_member.handling = "Serialize" ->
                        LET serial_out == to_bytes(current_member.val)
                        IN  IF serial_out.ok
                            THEN get_inscription_wrap_nested(self, i + 1,
                                                      Append(hasher, serial_out.val))
                            ELSE [ok |-> FALSE,
                                  err |-> new_general("Could not serialize Value"),
                                  val |-> NoData]
                  [] OTHER -> get_inscription_wrap_nested(self, i + 1, hasher)

\* The generated body of get_inscription from the sort name at position i on:
\* one hasher.update per Recurse or Serialize member, none for Skip, then the
\* additional data, then the 64-byte output.  hasher is the sequence of inputs
\* absorbed so far.
RECURSIVE get_inscription_from(_, _, _)
get_inscription_from(self, i, hasher) ==
    LET names == member_vec(self.members)
    IN  IF i > Len(names)
        THEN IF self.addl.ok
             THEN [ok |-> TRUE, err |-> NoError,
                   val |-> [kind |-> "digest", bytes |-> <<>>, mark |-> self.mark,
                            absorbed |-> Append(hasher, self.addl.val)]]
             ELSE [ok |-> FALSE, err |-> self.addl.err, val |-> NoData]
        ELSE LET current_member == member_table(self.members)[names[i]]
             IN  CASE current_member.handling = "Recurse" ->
                        LET sub == get_inscription_from(current_member.val, 1, <<>>)
                        IN  IF sub.ok
                            THEN get_inscription_from(self, i + 1, Append(hasher, sub.val))
                            ELSE sub
                  [] current_member.handling = "Serialize" ->
                        LET serial_out == to_bytes(current_member.val)
                        IN  IF serial_out.ok
                            THEN get_inscription_from(self, i + 1,
                                                      Append(hasher, serial_out.val))
                            ELSE [ok |-> FALSE,
                                  err |-> new_general("Could not serialize Value"),
                                  val |-> NoData]
                  [] OTHER -> get_inscription_from(self, i + 1, hasher)

get_inscription(self) == get_inscription_from(self, 1, <<>>)

\* The default get_additional of the trait: the empty vector.
get_additional_default == [ok |-> TRUE, err |-> NoError, val |-> RawBytes(<<>>)]

\* Values handed to add: a Point { x, y } whose members are serialized under
\* the sort names "b" (for x) and "a" (for y), and a Point whose user-supplied
\* get_additional fails.
PointMembers ==
    << [name_ident |-> <<24>>, sort_ident |-> <<2>>, handling |-> "Serialize",
        val |-> [ty |-> "u32", v |-> 10]],
       [name_ident |-> <<25>>, sort_ident |-> <<1>>, handling |-> "Serialize",
        val |-> [ty |-> "u32", v |-> 270]] >>

InscribeInputs ==
    { [mark |-> <<5>>, members |-> PointMembers, addl |-> get_additional_default],
      [mark |-> <<5>>, members |-> PointMembers,
       addl |-> [ok |-> FALSE, err |-> new_invalid_challenge("additional data unavailable"),
                 val |-> NoData]] }

(* --------------------- derive(Inscribe): the macro -------------------- *)

\* The attribute names and the handling names the derive knows.
INSCRIBE_HANDLING_IDENT == "inscribe"
INSCRIBE_ADDL_IDENT == "inscribe_addl"
INSCRIBE_MARK_IDENT == "inscribe_mark"
INSCRIBE_NAME_IDENT == "inscribe_name"
SKIP_IDENT == <<19, 11>>
SERIALIZE_IDENT == <<19, 5>>
RECURSE_IDENT == <<18>>

\* An attribute #[path(inside)]; inside = <<>> stands for contents that are
\* not one identifier.
Attr(path, inside) == [path |-> path, inside |-> inside]

\* What a step of the macro gives: a value, or a panic (the derive fails).
Expanded(v) == [ok |-> TRUE, panic |-> "", val |-> v]
Panic(msg, v) == [ok |-> FALSE, panic |-> msg, val |-> v]

\* parse_contained_ident: the identifier inside the attribute, if any.
parse_contained_ident(attr) ==
    IF attr.inside = <<>> THEN [some |-> FALSE, ident |-> <<>>]
    ELSE [some |-> TRUE, ident |-> attr.inside]

\* No MemberInfo: what a panic leaves.
NoMemberInfo == [name_ident |-> <<>>, sort_ident |-> <<>>, handling |-> "none"]

\* The loop of get_member_info over the attributes of the field, from
\* attribute i on, with the locals of the function in st.
RECURSIVE get_member_info_from(_, _, _)
get_member_info_from(field, i, st) ==
    IF i > Len(field.attrs)
    THEN Expanded([name_ident |-> field.ident, sort_ident |-> st.sort_name,
                   handling |-> st.member_handling])
    ELSE LET attr == field.attrs[i]
             inside == parse_contained_ident(attr)
         IN  IF attr.path # INSCRIBE_HANDLING_IDENT /\ attr.path # INSCRIBE_NAME_IDENT
             THEN get_member_info_from(field, i + 1, st)
             ELSE IF ~inside.some
             THEN Panic("Failed to parse member attribute for Inscribe trait", NoMemberInfo)
             ELSE IF attr.path = INSCRIBE_HANDLING_IDENT
             THEN IF st.found_handling
                  THEN Panic("Inscribe handling attribute defined more than once",
                             NoMemberInfo)
                  ELSE IF inside.ident = SKIP_IDENT
                  THEN get_member_info_from(field, i + 1,
                           [st EXCEPT !.member_handling = "Skip", !.found_handling = TRUE])
                  ELSE IF inside.ident = SERIALIZE_IDENT
                  THEN get_member_info_from(field, i + 1,
                           [st EXCEPT !.member_handling = "Serialize",
                                      !.found_handling = TRUE])
                  ELSE IF inside.ident = RECURSE_IDENT
                  THEN get_member_info_from(field, i + 1,
                           [st EXCEPT !.member_handling = "Recurse",
                                      !.found_handling = TRUE])
                  ELSE Panic("Invalid handling specification", NoMemberInfo)
             ELSE IF st.found_name
                  THEN Panic("Inscribe name attribute defined more than once", NoMemberInfo)
                  ELSE get_member_info_from(field, i + 1,
                           [st EXCEPT !.sort_name = inside.ident, !.found_name = TRUE])

\* get_member_info with Serialize as the handling of a field that names none.
get_member_info_serialize(field) ==
    get_member_info_from(field, 1,
        [member_handling |-> "Serialize", found_handling |-> FALSE, found_name |-> FALSE,
         sort_name |-> field.ident])

\* get_member_info: by default the handling is Recurse and the sort name is
\* the name of the field.
get_member_info(field) ==
    get_member_info_from(field, 1,
        [member_handling |-> "Recurse", found_handling |-> FALSE, found_name |-> FALSE,
         sort_name |-> field.ident])

\* The first loop of implement_get_inscription: the MemberInfo of every named
\* field, in declaration order (member_table and member_vec are built from
\* them); the panic of get_member_info ends it.
RECURSIVE implement_get_inscription_from(_, _, _)
implement_get_inscription_from(named, i, infos) ==
    IF i > Len(named) THEN Expanded(infos)
    ELSE LET member_info == get_member_info(named[i])
         IN  IF member_info.ok
             THEN implement_get_inscription_from(named, i + 1,
                                                 Append(infos, member_info.val))
             ELSE Panic(member_info.panic, <<>>)

implement_get_inscription(dstruct) ==
    IF dstruct.fields # "Named" THEN Panic("Invalid struct type", <<>>)
    ELSE implement_get_inscription_from(dstruct.named, 1, <<>>)

\* The get_mark / get_additional a type ends up with: the method the user
\* named, or the default (the name of the type; the method of the trait).
UserMethod(path) == [user |-> TRUE, path |-> path, ident_str |-> <<>>]
NoMethod == [user |-> FALSE, path |-> <<>>, ident_str |-> <<>>]

\* implement_default_mark: the mark is the name of the struct.
implement_default_mark(ast) == [user |-> FALSE, path |-> <<>>, ident_str |-> ast.ident]

\* The positions of the outer attributes with the given path.
AttrsNamed(ast, path) == { i \in 1..Len(ast.attrs) : ast.attrs[i].path = path }

\* The first of them: the loops of implement_get_addl and implement_get_mark
\* break after it.
FirstAttr(ast, path) ==
    ast.attrs[CHOOSE i \in AttrsNamed(ast, path) : \A j \in AttrsNamed(ast, path) : i <= j]

\* implement_get_addl: get_additional calls the method named by the first
\* #[inscribe_addl(..)]; without one nothing is generated and the default
\* method of the trait remains.
implement_get_addl(ast) ==
    IF AttrsNamed(ast, INSCRIBE_ADDL_IDENT) = {} THEN Expanded(NoMethod)
    ELSE LET attr == FirstAttr(ast, INSCRIBE_ADDL_IDENT)
         IN  IF attr.inside = <<>>
             THEN Panic("Failed to parse inscribe_addl field attribute", NoMethod)
             ELSE Expanded(UserMethod(attr.inside))

\* implement_get_mark: get_mark calls the method named by the first
\* #[inscribe_mark(..)]; without one it is implement_default_mark.
implement_get_mark(ast) ==
    IF AttrsNamed(ast, INSCRIBE_MARK_IDENT) = {} THEN Expanded(implement_default_mark(ast))
    ELSE LET attr == FirstAttr(ast, INSCRIBE_MARK_IDENT)
         IN  IF attr.inside = <<>>
             THEN Panic("Failed to parse inscribe_mark field attribute", NoMethod)
             ELSE Expanded(UserMethod(attr.inside))

\* What the get_additional / get_mark of the generated impl return, given
\* what the method the user named returns.
get_additional_impl(impl, method_result) ==
    IF impl.get_additional.user THEN method_result ELSE get_additional_default

get_mark_impl(impl, method_result) ==
    IF impl.get_mark.user THEN method_result ELSE impl.get_mark.ident_str

\* No implementation: what a panic of the derive leaves.
NoImpl == [get_mark |-> NoMethod, members |-> <<>>, get_additional |-> NoMethod]

\* implement_inscribe_trait: get_mark, get_inscription, get_additional.
implement_inscribe_trait(ast) ==
    LET get_mark == implement_get_mark(ast)
        get_inscr == implement_get_inscription(ast)
        get_addl == implement_get_addl(ast)
    IN  IF ~get_mark.ok THEN Panic(get_mark.panic, NoImpl)
        ELSE IF ~get_inscr.ok THEN Panic(get_inscr.panic, NoImpl)
        ELSE IF ~get_addl.ok THEN Panic(get_addl.panic, NoImpl)
        ELSE Expanded([get_mark |-> get_mark.val, members |-> get_inscr.val,
                       get_additional |-> get_addl.val])

\* inscribe_derive: only structs, and only structs with named fields.
inscribe_derive(ast) ==
    IF ast.data # "Struct" THEN Panic("Invalid type for derive(Inscribe)", NoImpl)
    ELSE IF ast.fields # "Named"
    THEN Panic("Unnamed structs not supported for derive(Inscribe)", NoImpl)
    ELSE implement_inscribe_trait(ast)

(* ------------------------------ Decree -------------------------------- *)

VARIABLES
    constructed,     \* whether Decree::new has returned the Decree
    inputs,          \* Decree.inputs: the input labels of the phase, sorted
    challenges,      \* Decree.challenges: the challenges still to be generated
    values,          \* Decree.values: label -> byte vector
    transcript,      \* Decree.transcript: the calls made on the Merlin transcript
    committed,       \* Decree.committed
    last,            \* the latest public call: its name, label argument and result
    phaseStart,      \* history: length of transcript when the phase was declared
    phaseInputs,     \* history: the input slice as passed to new / extend
    phaseChallenges, \* history: the challenge slice as passed to new / extend
    emitted,         \* history: labels of the successful get_challenge calls of the phase
    added            \* history: labels of the successful add / add_serial calls of the phase

\* A second, independent Decree (the verifier's, where the first is the
\* prover's) that is handed the calls made on the first.
VARIABLES
    verifier,        \* the second Decree: whether constructed, the struct, its latest result
    pending,         \* the call made on the first Decree and not yet on the second
    iterOrder        \* the order in which the HashMap of the Decree called next
                     \* iterates over its labels (unspecified by std, differs
                     \* from one map to another)

\* A value handed to get_inscription on its own, and what it returned.
VARIABLES
    subject,         \* the value: its mark, its members as declared, its additional data
    inscribed        \* the result of subject.get_inscription(), once called

\* A type declaration handed to derive(Inscribe), and what the macro made of it.
VARIABLES
    ast,             \* the DeriveInput: name, kind, outer attributes, fields
    derived          \* the result of inscribe_derive(ast), once run

decreeVars == << constructed, inputs, challenges, values, transcript, committed, last,
                 phaseStart, phaseInputs, phaseChallenges, emitted, added >>

pairVars == << verifier, pending, iterOrder >>

inscribeVars == << subject, inscribed, ast, derived >>

vars == << constructed, inputs, challenges, values, transcript, committed, last,
           phaseStart, phaseInputs, phaseChallenges, emitted, added,
           verifier, pending, iterOrder, subject, inscribed, ast, derived >>

\* The Decree struct as a value.
Decree(i, c, v, t, k) ==
    [inputs |-> i, challenges |-> c, values |-> v, transcript |-> t, committed |-> k]

\* The Decree the variables hold.
Self == Decree(inputs, challenges, values, transcript, committed)

\* No Decree: what the fields hold before new has succeeded.
NoDecree == Decree(<<>>, <<>>, HashMap_new, <<>>, FALSE)

\* Result values: Ok(..) and Err(e), with the struct as the call leaves it.
Ok(d) == [ok |-> TRUE, err |-> NoError, decree |-> d]

Err(e, d) == [ok |-> FALSE, err |-> e, decree |-> d]

\* new without the sort of the input labels.
new_unsorted(name, ins, chs) ==
    IF ins = <<>>
    THEN Err(new_init_fail("Must specify at least one input"), NoDecree)
    ELSE IF chs = <<>>
    THEN Err(new_init_fail("Must specify at least one challenge"), NoDecree)
    ELSE IF ~vector_is_distinct(ins)
    THEN Err(new_init_fail("Inputs must be distinct"), NoDecree)
    ELSE Ok(Decree(ins, chs, HashMap_new, Transcript_new(name), FALSE))

new(name, ins, chs) ==
    IF ins = <<>>
    THEN Err(new_init_fail("Must specify at least one input"), NoDecree)
    ELSE IF chs = <<>>
    THEN Err(new_init_fail("Must specify at least one challenge"), NoDecree)
    ELSE IF ~vector_is_distinct(ins)
    THEN Err(new_init_fail("Inputs must be distinct"), NoDecree)
    ELSE Ok(Decree(sort(ins), chs, HashMap_new, Transcript_new(name), FALSE))

\* extend with "and" for "or" in the test that the phase is drained.
extend_and(self, ins, chs) ==
    IF self.challenges # <<>> /\ ~self.committed
    THEN Err(new_extend_fail("Cannot extend Decree until all challenges generated"), self)
    ELSE IF ins = <<>>
    THEN Err(new_extend_fail("Must specify at least one input"), self)
    ELSE IF chs = <<>>
    THEN Err(new_extend_fail("Must specify at least one challenge"), self)
    ELSE IF ~vector_is_distinct(ins)
    THEN Err(new_init_fail("Inputs must be distinct"), self)
    ELSE Ok(Decree(sort(ins), chs, HashMap_new, self.transcript, FALSE))

\* extend that reports an empty slice with the error kind of new.
extend_init_fail(self, ins, chs) ==
    IF self.challenges # <<>> \/ ~self.committed
    THEN Err(new_extend_fail("Cannot extend Decree until all challenges generated"), self)
    ELSE IF ins = <<>>
    THEN Err(new_init_fail("Must specify at least one input"), self)
    ELSE IF chs = <<>>
    THEN Err(new_init_fail("Must specify at least one challenge"), self)
    ELSE IF ~vector_is_distinct(ins)
    THEN Err(new_init_fail("Inputs must be distinct"), self)
    ELSE Ok(Decree(sort(ins), chs, HashMap_new, self.transcript, FALSE))

\* extend without the test of the challenge slice.
extend_any_challenges(self, ins, chs) ==
    IF self.challenges # <<>> \/ ~self.committed
    THEN Err(new_extend_fail("Cannot extend Decree until all challenges generated"), self)
    ELSE IF ins = <<>>
    THEN Err(new_extend_fail("Must specify at least one input"), self)
    ELSE IF ~vector_is_distinct(ins)
    THEN Err(new_init_fail("Inputs must be distinct"), self)
    ELSE Ok(Decree(sort(ins), chs, HashMap_new, self.transcript, FALSE))

\* extend without the sort of the input labels.
extend_unsorted(self, ins, chs) ==
    IF self.challenges # <<>> \/ ~self.committed
    THEN Err(new_extend_fail("Cannot extend Decree until all challenges generated"), self)
    ELSE IF ins = <<>>
    THEN Err(new_extend_fail("Must specify at least one input"), self)
    ELSE IF chs = <<>>
    THEN Err(new_extend_fail("Must specify at least one challenge"), self)
    ELSE IF ~vector_is_distinct(ins)
    THEN Err(new_init_fail("Inputs must be distinct"), self)
    ELSE Ok(Decree(ins, chs, HashMap_new, self.transcript, FALSE))

\* extend that starts a new Merlin transcript under the same name.
extend_new_transcript(self, ins, chs) ==
    IF self.challenges # <<>> \/ ~self.committed
    THEN Err(new_extend_fail("Cannot extend Decree until all challenges generated"), self)
    ELSE IF ins = <<>>
    THEN Err(new_extend_fail("Must specify at least one input"), self)
    ELSE IF chs = <<>>
    THEN Err(new_extend_fail("Must specify at least one challenge"), self)
    ELSE IF ~vector_is_distinct(ins)
    THEN Err(new_init_fail("Inputs must be distinct"), self)
    ELSE Ok(Decree(sort(ins), chs, HashMap_new,
                   Transcript_new(self.transcript[1].label), FALSE))

\* extend that resets the values and the committed flag before it looks at
\* its arguments.
extend_reset_first(self, ins, chs) ==
    IF self.challenges # <<>> \/ ~self.committed
    THEN Err(new_extend_fail("Cannot extend Decree until all challenges generated"), self)
    ELSE LET reset == [self EXCEPT !.values = HashMap_new, !.committed = FALSE]
         IN  IF ins = <<>>
             THEN Err(new_extend_fail("Must specify at least one input"), reset)
             ELSE IF chs = <<>>
             THEN Err(new_extend_fail("Must specify at least one challenge"), reset)
             ELSE IF ~vector_is_distinct(ins)
             THEN Err(new_init_fail("Inputs must be distinct"), reset)
             ELSE Ok(Decree(sort(ins), chs, HashMap_new, self.transcript, FALSE))

\* extend without the reset of the values of the previous phase.
extend_keep_values(self, ins, chs) ==
    IF self.challenges # <<>> \/ ~self.committed
    THEN Err(new_extend_fail("Cannot extend Decree until all challenges generated"), self)
    ELSE IF ins = <<>>
    THEN Err(new_extend_fail("Must specify at least one input"), self)
    ELSE IF chs = <<>>
    THEN Err(new_extend_fail("Must specify at least one challenge"), self)
    ELSE IF ~vector_is_distinct(ins)
    THEN Err(new_init_fail("Inputs must be distinct"), self)
    ELSE Ok(Decree(sort(ins), chs, self.values, self.transcript, FALSE))

extend(self, ins, chs) ==
    IF self.challenges # <<>> \/ ~self.committed
    THEN Err(new_extend_fail("Cannot extend Decree until all challenges generated"), self)
    ELSE IF ins = <<>>
    THEN Err(new_extend_fail("Must specify at least one input"), self)
    ELSE IF chs = <<>>
    THEN Err(new_extend_fail("Must specify at least one challenge"), self)
    ELSE IF ~vector_is_distinct(ins)
    THEN Err(new_init_fail("Inputs must be distinct"), self)
    ELSE Ok(Decree(sort(ins), chs, HashMap_new, self.transcript, FALSE))

\* can_commit with the test of the committed flag inverted.
can_commit_inverted(self) ==
    IF ~self.committed THEN FALSE
    ELSE \A i \in 1..Len(self.inputs) : contains_key(self.values, self.inputs[i])

can_commit(self) ==
    IF self.committed THEN FALSE
    ELSE \A i \in 1..Len(self.inputs) : contains_key(self.values, self.inputs[i])

\* The loop of commit from position i of self.inputs on, then the flag.
RECURSIVE commit_from(_, _)
commit_from(self, i) ==
    IF i > Len(self.inputs)
    THEN Ok([self EXCEPT !.committed = TRUE])
    ELSE LET input_label == self.inputs[i]
         IN  IF ~contains_key(self.values, input_label)
             THEN Err(new_general("Error in label processing"), self)
             ELSE commit_from(
                      [self EXCEPT !.transcript =
                          append_message(@, input_label, self.values[input_label])],
                      i + 1)

\* commit with a loop over the keys of self.values, in the order in which the
\* HashMap iterates, in place of the loop over the sorted self.inputs.
RECURSIVE commit_keys(_, _)
commit_keys(self, keys) ==
    IF keys = <<>>
    THEN Ok([self EXCEPT !.committed = TRUE])
    ELSE commit_keys([self EXCEPT !.transcript =
                         append_message(@, Head(keys), self.values[Head(keys)])],
                     Tail(keys))

commit_hash_order(self) ==
    commit_keys(self,
                IF iterOrder = "reverse"
                THEN [i \in 1..Len(self.inputs) |-> self.inputs[Len(self.inputs) + 1 - i]]
                ELSE self.inputs)

\* commit that runs its loop over the inputs twice.
commit_repeated(self) ==
    LET r == commit_from(self, 1)
    IN  IF r.ok THEN commit_from(r.decree, 1) ELSE r

commit(self) == commit_from(self, 1)

\* add_input without the test that the label is an input of the phase.
add_input_any_label(self, label, input) ==
    IF self.committed
    THEN Err(new_general("Cannot add values after commitment"), self)
    ELSE IF contains_key(self.values, label)
    THEN Err(new_invalid_label("Label already used"), self)
    ELSE LET inserted == [self EXCEPT !.values = insert(@, label, input)]
         IN  IF can_commit(inserted) THEN commit(inserted) ELSE Ok(inserted)

\* add_input without the test that the label has no value yet.
add_input_overwrite(self, label, input) ==
    IF self.committed
    THEN Err(new_general("Cannot add values after commitment"), self)
    ELSE IF ~contains(self.inputs, label)
    THEN Err(new_invalid_label("Invalid label"), self)
    ELSE LET inserted == [self EXCEPT !.values = insert(@, label, input)]
         IN  IF can_commit(inserted) THEN commit(inserted) ELSE Ok(inserted)

\* add_input without the test of the committed flag.
add_input_after_commit(self, label, input) ==
    IF ~contains(self.inputs, label)
    THEN Err(new_invalid_label("Invalid label"), self)
    ELSE IF contains_key(self.values, label)
    THEN Err(new_invalid_label("Label already used"), self)
    ELSE LET inserted == [self EXCEPT !.values = insert(@, label, input)]
         IN  IF can_commit(inserted) THEN commit(inserted) ELSE Ok(inserted)

\* add_input that closes the phase when it is given an undeclared label.
add_input_close_on_error(self, label, input) ==
    IF self.committed
    THEN Err(new_general("Cannot add values after commitment"), self)
    ELSE IF ~contains(self.inputs, label)
    THEN Err(new_invalid_label("Invalid label"), [self EXCEPT !.committed = TRUE])
    ELSE IF contains_key(self.values, label)
    THEN Err(new_invalid_label("Label already used"), self)
    ELSE LET inserted == [self EXCEPT !.values = insert(@, label, input)]
         IN  IF can_commit(inserted) THEN commit(inserted) ELSE Ok(inserted)

\* add_input that records the value before it tests the label.
add_input_insert_first(self, label, input) ==
    IF self.committed
    THEN Err(new_general("Cannot add values after commitment"), self)
    ELSE LET inserted == [self EXCEPT !.values = insert(@, label, input)]
         IN  IF ~contains(self.inputs, label)
             THEN Err(new_invalid_label("Invalid label"), inserted)
             ELSE IF contains_key(self.values, label)
             THEN Err(new_invalid_label("Label already used"), inserted)
             ELSE IF can_commit(inserted) THEN commit(inserted) ELSE Ok(inserted)

add_input(self, label, input) ==
    IF self.committed
    THEN Err(new_general("Cannot add values after commitment"), self)
    ELSE IF ~contains(self.inputs, label)
    THEN Err(new_invalid_label("Invalid label"), self)
    ELSE IF contains_key(self.values, label)
    THEN Err(new_invalid_label("Label already used"), self)
    ELSE LET inserted == [self EXCEPT !.values = insert(@, label, input)]
         IN  IF can_commit(inserted) THEN commit(inserted) ELSE Ok(inserted)

add_serial(self, label, input) ==
    LET bytevec == to_bytes(input)
    IN  IF ~bytevec.ok
        THEN Err(new_general("Could not serialize"), self)
        ELSE add_input(self, label, bytevec.val)

add(self, label, input) ==
    LET inscription == get_inscription(input)
    IN  IF ~inscription.ok
        THEN Err(inscription.err, self)
        ELSE add_input(self, label, inscription.val)

\* get_challenge without the test that the label is among the challenges left.
get_challenge_no_contains(self, challenge, destlen) ==
    IF ~self.committed
    THEN Err(new_general("Missing transcript parameters"), self)
    ELSE IF self.challenges = <<>>
    THEN Err(new_invalid_challenge("No remaining challenges"), self)
    ELSE IF self.challenges[1] # challenge
    THEN Err(new_invalid_challenge("Challenge order incorrect"), self)
    ELSE Ok([self EXCEPT !.transcript = challenge_bytes(@, challenge, destlen),
                         !.challenges = Tail(@)])

\* get_challenge without the test that challenges are left.
get_challenge_no_empty(self, challenge, destlen) ==
    IF ~self.committed
    THEN Err(new_general("Missing transcript parameters"), self)
    ELSE IF ~contains(self.challenges, challenge)
    THEN Err(new_invalid_challenge("Requested challenge not in spec"), self)
    ELSE IF self.challenges[1] # challenge
    THEN Err(new_invalid_challenge("Challenge order incorrect"), self)
    ELSE Ok([self EXCEPT !.transcript = challenge_bytes(@, challenge, destlen),
                         !.challenges = Tail(@)])

\* get_challenge that asks the Merlin transcript for a full inscription
\* length, whatever the length of dest.
get_challenge_fixed_len(self, challenge, destlen) ==
    IF ~self.committed
    THEN Err(new_general("Missing transcript parameters"), self)
    ELSE IF self.challenges = <<>>
    THEN Err(new_invalid_challenge("No remaining challenges"), self)
    ELSE IF ~contains(self.challenges, challenge)
    THEN Err(new_invalid_challenge("Requested challenge not in spec"), self)
    ELSE IF self.challenges[1] # challenge
    THEN Err(new_invalid_challenge("Challenge order incorrect"), self)
    ELSE Ok([self EXCEPT !.transcript = challenge_bytes(@, challenge, INSCRIBE_LENGTH),
                         !.challenges = Tail(@)])

\* get_challenge that drops the head of the challenges left also when the
\* requested label is not the head.
get_challenge_pop_on_error(self, challenge, destlen) ==
    IF ~self.committed
    THEN Err(new_general("Missing transcript parameters"), self)
    ELSE IF self.challenges = <<>>
    THEN Err(new_invalid_challenge("No remaining challenges"), self)
    ELSE IF ~contains(self.challenges, challenge)
    THEN Err(new_invalid_challenge("Requested challenge not in spec"), self)
    ELSE IF self.challenges[1] # challenge
    THEN Err(new_invalid_challenge("Challenge order incorrect"),
             [self EXCEPT !.challenges = Tail(@)])
    ELSE Ok([self EXCEPT !.transcript = challenge_bytes(@, challenge, destlen),
                         !.challenges = Tail(@)])

\* get_challenge without the test of the committed flag.
get_challenge_uncommitted(self, challenge, destlen) ==
    IF self.challenges = <<>>
    THEN Err(new_invalid_challenge("No remaining challenges"), self)
    ELSE IF ~contains(self.challenges, challenge)
    THEN Err(new_invalid_challenge("Requested challenge not in spec"), self)
    ELSE IF self.challenges[1] # challenge
    THEN Err(new_invalid_challenge("Challenge order incorrect"), self)
    ELSE Ok([self EXCEPT !.transcript = challenge_bytes(@, challenge, destlen),
                         !.challenges = Tail(@)])

\* get_challenge without the test that the label is the next expected one.
get_challenge_any_order(self, challenge, destlen) ==
    IF ~self.committed
    THEN Err(new_general("Missing transcript parameters"), self)
    ELSE IF self.challenges = <<>>
    THEN Err(new_invalid_challenge("No remaining challenges"), self)
    ELSE IF ~contains(self.challenges, challenge)
    THEN Err(new_invalid_challenge("Requested challenge not in spec"), self)
    ELSE Ok([self EXCEPT !.transcript = challenge_bytes(@, challenge, destlen),
                         !.challenges = Tail(@)])

\* get_challenge with the tests of the label before the test of the committed flag.
get_challenge_label_first(self, challenge, destlen) ==
    IF self.challenges = <<>>
    THEN Err(new_invalid_challenge("No remaining challenges"), self)
    ELSE IF ~contains(self.challenges, challenge)
    THEN Err(new_invalid_challenge("Requested challenge not in spec"), self)
    ELSE IF self.challenges[1] # challenge
    THEN Err(new_invalid_challenge("Challenge order incorrect"), self)
    ELSE IF ~self.committed
    THEN Err(new_general("Missing transcript parameters"), self)
    ELSE Ok([self EXCEPT !.transcript = challenge_bytes(@, challenge, destlen),
                         !.challenges = Tail(@)])

\* get_challenge that removes every occurrence of the label from the
\* challenges left, in place of the first.
get_challenge_remove_all(self, challenge, destlen) ==
    IF ~self.committed
    THEN Err(new_general("Missing transcript parameters"), self)
    ELSE IF self.challenges = <<>>
    THEN Err(new_invalid_challenge("No remaining challenges"), self)
    ELSE IF ~contains(self.challenges, challenge)
    THEN Err(new_invalid_challenge("Requested challenge not in spec"), self)
    ELSE IF self.challenges[1] # challenge
    THEN Err(new_invalid_challenge("Challenge order incorrect"), self)
    ELSE Ok([self EXCEPT !.transcript = challenge_bytes(@, challenge, destlen),
                         !.challenges = SelectSeq(@, LAMBDA c : c # challenge)])

\* get_challenge that clears the committed flag with the last challenge.
get_challenge_reopen(self, challenge, destlen) ==
    IF ~self.committed
    THEN Err(new_general("Missing transcript parameters"), self)
    ELSE IF self.challenges = <<>>
    THEN Err(new_invalid_challenge("No remaining challenges"), self)
    ELSE IF ~contains(self.challenges, challenge)
    THEN Err(new_invalid_challenge("Requested challenge not in spec"), self)
    ELSE IF self.challenges[1] # challenge
    THEN Err(new_invalid_challenge("Challenge order incorrect"), self)
    ELSE Ok([self EXCEPT !.transcript = challenge_bytes(@, challenge, destlen),
                         !.challenges = Tail(@),
                         !.committed = Tail(self.challenges) # <<>>])

get_challenge(self, challenge, destlen) ==
    IF ~self.committed
    THEN Err(new_general("Missing transcript parameters"), self)
    ELSE IF self.challenges = <<>>
    THEN Err(new_invalid_challenge("No remaining challenges"), self)
    ELSE IF ~contains(self.challenges, challenge)
    THEN Err(new_invalid_challenge("Requested challenge not in spec"), self)
    ELSE IF self.challenges[1] # challenge
    THEN Err(new_invalid_challenge("Challenge order incorrect"), self)
    ELSE Ok([self EXCEPT !.transcript = challenge_bytes(@, challenge, destlen),
                         !.challenges = Tail(@)])

(* ------------------------------ actions ------------------------------- *)

\* The record of a public call.
Call(op, label, r) == [op |-> op, label |-> label, res |-> [ok |-> r.ok, err |-> r.err]]

\* The struct after a call.
Store(d) ==
    /\ inputs' = d.inputs
    /\ challenges' = d.challenges
    /\ values' = d.values
    /\ transcript' = d.transcript
    /\ committed' = d.committed

\* A call, by its name and its arguments; no call.
NoCall ==
    [op |-> "none", name |-> <<>>, ins |-> <<>>, chs |-> <<>>, label |-> <<>>,
     input |-> [ty |-> "none", v |-> 0], destlen |-> 0]

\* The second Decree before its Decree::new.
NoVerifier == [constructed |-> FALSE, decree |-> NoDecree, res |-> Call("none", <<>>, Ok(NoDecree)).res]

\* No second Decree is run.
PairIdle == verifier = NoVerifier /\ pending = NoCall /\ iterOrder = "forward"

\* No value is inscribed on its own.
NoSubject == [mark |-> <<>>, members |-> <<>>, addl |-> get_additional_default]

NotCalled == [called |-> FALSE, ok |-> FALSE, err |-> NoError, val |-> NoData]

NoAst == [ident |-> <<>>, data |-> "none", fields |-> "none", attrs |-> <<>>, named |-> <<>>]

NotDerived == [ran |-> FALSE, ok |-> FALSE, panic |-> "", val |-> NoImpl]

DeriveIdle == ast = NoAst /\ derived = NotDerived

InscribeIdle == subject = NoSubject /\ inscribed = NotCalled /\ DeriveIdle

\* The first Decree before its Decree::new.
DecreeInit ==
    /\ constructed = FALSE
    /\ inputs = NoDecree.inputs
    /\ challenges = NoDecree.challenges
    /\ values = NoDecree.values
    /\ transcript = NoDecree.transcript
    /\ committed = NoDecree.committed
    /\ last = Call("none", <<>>, Ok(NoDecree))
    /\ phaseStart = 0
    /\ phaseInputs = <<>>
    /\ phaseChallenges = <<>>
    /\ emitted = <<>>
    /\ added = <<>>

Init ==
    /\ PairIdle
    /\ InscribeIdle
    /\ constructed = FALSE
    /\ inputs = NoDecree.inputs
    /\ challenges = NoDecree.challenges
    /\ values = NoDecree.values
    /\ transcript = NoDecree.transcript
    /\ committed = NoDecree.committed
    /\ last = Call("none", <<>>, Ok(NoDecree))
    /\ phaseStart = 0
    /\ phaseInputs = <<>>
    /\ phaseChallenges = <<>>
    /\ emitted = <<>>
    /\ added = <<>>

\* let d = Decree::new(name, ins, chs)
DoNew(name, ins, chs) ==
    LET r == new(name, ins, chs)
    IN  /\ ~constructed
        /\ constructed' = r.ok
        /\ Store(r.decree)
        /\ last' = Call("new", <<>>, r)
        /\ phaseStart' = Len(r.decree.transcript)
        /\ phaseInputs' = ins
        /\ phaseChallenges' = chs
        /\ UNCHANGED << emitted, added >>

\* d.extend(ins, chs)
DoExtend(ins, chs) ==
    LET r == extend(Self, ins, chs)
    IN  /\ constructed
        /\ Store(r.decree)
        /\ last' = Call("extend", <<>>, r)
        /\ phaseStart' = IF r.ok THEN Len(transcript) ELSE phaseStart
        /\ phaseInputs' = IF r.ok THEN ins ELSE phaseInputs
        /\ phaseChallenges' = IF r.ok THEN chs ELSE phaseChallenges
        /\ emitted' = IF r.ok THEN <<>> ELSE emitted
        /\ added' = IF r.ok THEN <<>> ELSE added
        /\ UNCHANGED constructed

\* d.add_serial(label, input)
DoAddSerial(label, input) ==
    LET r == add_serial(Self, label, input)
    IN  /\ constructed
        /\ Store(r.decree)
        /\ last' = Call("add_serial", label, r)
        /\ added' = IF r.ok THEN Append(added, label) ELSE added
        /\ UNCHANGED << constructed, phaseStart, phaseInputs, phaseChallenges, emitted >>

\* d.add(label, input)
DoAdd(label, input) ==
    LET r == add(Self, label, input)
    IN  /\ constructed
        /\ Store(r.decree)
        /\ last' = Call("add", label, r)
        /\ added' = IF r.ok THEN Append(added, label) ELSE added
        /\ UNCHANGED << constructed, phaseStart, phaseInputs, phaseChallenges, emitted >>

\* d.get_challenge(challenge, &mut dest), dest of length destlen
DoGetChallenge(challenge, destlen) ==
    LET r == get_challenge(Self, challenge, destlen)
    IN  /\ constructed
        /\ Store(r.decree)
        /\ last' = Call("get_challenge", challenge, r)
        /\ emitted' = IF r.ok THEN Append(emitted, challenge) ELSE emitted
        /\ UNCHANGED << constructed, phaseStart, phaseInputs, phaseChallenges, added >>

New ==
    \E name \in Names, ins \in InputSlices, chs \in ChallengeSlices :
        /\ 1 + Len(ins) + Len(chs) <= MaxHistory
        /\ DoNew(name, ins, chs)
        /\ UNCHANGED << pairVars, inscribeVars >>

Extend ==
    \E ins \in InputSlices, chs \in ChallengeSlices :
        /\ Len(transcript) + Len(ins) + Len(chs) <= MaxHistory
        /\ DoExtend(ins, chs)
        /\ UNCHANGED << pairVars, inscribeVars >>

AddSerial ==
    \E label \in Labels, input \in SerialInputs :
        DoAddSerial(label, input) /\ UNCHANGED << pairVars, inscribeVars >>

Add ==
    \E label \in Labels, input \in InscribeInputs :
        DoAdd(label, input) /\ UNCHANGED << pairVars, inscribeVars >>

GetChallenge ==
    \E challenge \in Labels, destlen \in DestLens :
        DoGetChallenge(challenge, destlen) /\ UNCHANGED << pairVars, inscribeVars >>

Next == New \/ Extend \/ AddSerial \/ Add \/ GetChallenge

Spec == Init /\ [][Next]_vars

(* ---------------- runs that continue a drained first phase ------------- *)

\* The state after Decree::new(name, &[l], &["ab"]), add_serial(l, 270u32)
\* and get_challenge("ab", dest) with a 32-byte dest: the first phase is
\* drained and extend is the only call that can succeed.
InitDrained ==
    \E name \in Names, l \in Labels :
        LET c  == << 1, 2 >>
            d0 == new(name, << l >>, << c >>).decree
            d1 == add_serial(d0, l, [ty |-> "u32", v |-> 270]).decree
            r  == get_challenge(d1, c, 32)
        IN  /\ PairIdle
            /\ InscribeIdle
            /\ constructed = TRUE
            /\ inputs = r.decree.inputs
            /\ challenges = r.decree.challenges
            /\ values = r.decree.values
            /\ transcript = r.decree.transcript
            /\ committed = r.decree.committed
            /\ last = Call("get_challenge", c, r)
            /\ phaseStart = 1
            /\ phaseInputs = << l >>
            /\ phaseChallenges = << c >>
            /\ emitted = << c >>
            /\ added = << l >>

ExtendDrained ==
    \E ins \in InputSlices, chs \in ChallengeSlices :
        /\ Len(transcript) + Len(ins) + Len(chs) <= MaxDrainedHistory
        /\ DoExtend(ins, chs)
        /\ UNCHANGED << pairVars, inscribeVars >>

NextDrained == ExtendDrained \/ AddSerial \/ Add \/ GetChallenge

SpecDrained == InitDrained /\ [][NextDrained]_vars

(* ------------- two independent Decrees given the same calls ----------- *)

\* The call c made on the Decree d.
Replay(d, c) ==
    CASE c.op = "new" -> new(c.name, c.ins, c.chs)
      [] c.op = "extend" -> extend(d, c.ins, c.chs)
      [] c.op = "add_serial" -> add_serial(d, c.label, c.input)
      [] c.op = "add" -> add(d, c.label, c.input)
      [] OTHER -> get_challenge(d, c.label, c.destlen)

\* The second Decree, d with the flag k, after the call c.
Received(d, k, c) ==
    LET r == Replay(d, c)
    IN  [constructed |-> IF c.op = "new" THEN r.ok ELSE k,
         decree |-> r.decree,
         res |-> [ok |-> r.ok, err |-> r.err]]

\* The call c has been made on the first Decree while its history has room;
\* the second Decree has yet to receive it, and its HashMap iterates in the
\* opposite order, the case in which a loop over the map would show.
Both(c) ==
    /\ pending = NoCall
    /\ Len(transcript) < MaxPairHistory
    /\ pending' = c
    /\ iterOrder' = "reverse"
    /\ UNCHANGED << verifier, inscribeVars >>

\* The phases a protocol declares: slices that new and extend accept.
ProtocolInputs == { ins \in InputSlices : ins # <<>> /\ vector_is_distinct(ins) }

ProtocolChallenges == { chs \in ChallengeSlices : chs # <<>> }

PairNew ==
    \E name \in Names, ins \in ProtocolInputs, chs \in ProtocolChallenges :
        /\ 1 + Len(ins) + Len(chs) <= MaxPairHistory
        /\ DoNew(name, ins, chs)
        /\ Both([NoCall EXCEPT !.op = "new", !.name = name, !.ins = ins, !.chs = chs])

PairExtend ==
    \E ins \in ProtocolInputs, chs \in ProtocolChallenges :
        /\ Len(transcript) + Len(ins) + Len(chs) <= MaxPairHistory
        /\ DoExtend(ins, chs)
        /\ Both([NoCall EXCEPT !.op = "extend", !.ins = ins, !.chs = chs])

PairAddSerial ==
    \E label \in Labels, input \in SerialInputs :
        /\ DoAddSerial(label, input)
        /\ Both([NoCall EXCEPT !.op = "add_serial", !.label = label, !.input = input])

PairAdd ==
    \E label \in Labels, input \in InscribeInputs :
        /\ DoAdd(label, input)
        /\ Both([NoCall EXCEPT !.op = "add", !.label = label, !.input = input])

PairGetChallenge ==
    \E challenge \in Labels, destlen \in DestLens :
        /\ DoGetChallenge(challenge, destlen)
        /\ Both([NoCall EXCEPT !.op = "get_challenge", !.label = challenge,
                                !.destlen = destlen])

\* The second Decree receives the call; the next call goes to the first
\* Decree, whose HashMap iterates forward.
VerifierCall ==
    /\ pending # NoCall
    /\ verifier' = Received(verifier.decree, verifier.constructed, pending)
    /\ pending' = NoCall
    /\ iterOrder' = "forward"
    /\ UNCHANGED << decreeVars, inscribeVars >>

NextPair ==
    PairNew \/ PairExtend \/ PairAddSerial \/ PairAdd \/ PairGetChallenge \/ VerifierCall

\* Both Decrees before either party has called new.
InitPair == DecreeInit /\ PairIdle /\ InscribeIdle

SpecPair == InitPair /\ [][NextPair]_vars

(* ------------------------ vocabulary of the claims -------------------- *)

Range(s) == { s[i] : i \in 1..Len(s) }

\* Positions of the append_message / challenge_bytes calls of the phase.
PhaseAppends == { k \in (phaseStart + 1)..Len(transcript) : transcript[k].op = "append_message" }

PhaseSqueezes == { k \in (phaseStart + 1)..Len(transcript) : transcript[k].op = "challenge_bytes" }

\* Every declared input of the phase has a value.
AllSupplied == \A l \in Range(inputs) : l \in DOMAIN values

(* ------------------------------- claims ------------------------------- *)

\* C1. Commit before challenge: every challenge_bytes call of the phase was
\* made with committed true, after every input label declared for the phase had
\* been appended to the Merlin transcript under its own label with its value;
\* a get_challenge that has succeeded left a committed Decree.
C1_CommitBeforeChallenge ==
    /\ \A k \in PhaseSqueezes :
          /\ committed
          /\ \A l \in Range(phaseInputs) :
                \E j \in (phaseStart + 1)..(k - 1) :
                    /\ transcript[j].op = "append_message"
                    /\ transcript[j].label = l
                    /\ l \in DOMAIN values
                    /\ transcript[j].data = values[l]
    /\ (emitted # <<>> => committed /\ PhaseSqueezes # {})
    /\ (last.op = "get_challenge" /\ last.res.ok => committed)

\* C1 witness: a challenge has been generated in a phase with two inputs.
C1_Witness ==
    /\ last.op = "get_challenge" /\ last.res.ok
    /\ Len(phaseInputs) = 2
    /\ PhaseSqueezes # {}

\* C2. Order independence of the inputs: once the phase is committed, the
\* append_message calls of the phase are exactly one per declared label, in
\* ascending lexicographic order of the labels, each with the value given for
\* its label, whatever the order of the labels in the slice passed to new /
\* extend and whatever the order of the successful add / add_serial calls.
C2_OrderIndependence ==
    committed =>
        LET n == Len(phaseInputs)
        IN  /\ PhaseAppends = (phaseStart + 1)..(phaseStart + n)
            /\ { transcript[k].label : k \in PhaseAppends } = Range(phaseInputs)
            /\ Range(added) = Range(phaseInputs)
            /\ \A k \in PhaseAppends :
                  /\ transcript[k].label \in DOMAIN values
                  /\ transcript[k].data = values[transcript[k].label]
                  /\ k + 1 \in PhaseAppends =>
                        str_lt(transcript[k].label, transcript[k + 1].label)

\* C2 witness: a committed phase whose labels were declared in descending
\* order and whose values were added in descending order of the labels.
C2_Witness ==
    /\ committed
    /\ Len(phaseInputs) = 2 /\ str_lt(phaseInputs[2], phaseInputs[1])
    /\ Len(added) = 2 /\ str_lt(added[2], added[1])
    /\ values[added[1]] # values[added[2]]

\* C3. Challenges are generated in the declared order: the labels of the
\* successful get_challenge calls of the phase, followed by the challenges
\* still to be generated, are the challenge slice declared for the phase, and
\* they are the labels of the challenge_bytes calls of the phase, in order.
C3_ChallengeOrder ==
    constructed =>
        /\ emitted \o challenges = phaseChallenges
        /\ \E first \in (phaseStart + 1)..(Len(transcript) + 1) :
              /\ PhaseSqueezes = first..Len(transcript)
              /\ \A i \in 1..Len(emitted) : transcript[first + i - 1].label = emitted[i]
              /\ Len(emitted) = Len(transcript) - first + 1

\* C3 witness: two different challenges have been generated, in order.
C3_Witness ==
    /\ Len(emitted) = 2 /\ emitted[1] # emitted[2]
    /\ challenges = <<>>

\* C4. Atomic auto-commit: no state between public calls has every declared
\* input supplied and committed false; the call that supplies the last missing
\* input leaves the Decree committed with the inputs appended.
C4_AtomicAutoCommit ==
    constructed /\ AllSupplied =>
        /\ committed
        /\ Cardinality(PhaseAppends) = Len(inputs)

\* C4 witness: the state left by the add / add_serial that supplied the last
\* missing input of a two-input phase.
C4_Witness ==
    /\ last.op \in {"add", "add_serial"} /\ last.res.ok
    /\ Len(inputs) = 2 /\ AllSupplied /\ committed

\* C5. The keys of values are declared inputs (so there are no more of them
\* than declared inputs), and in a committed phase they are all the declared
\* inputs.
C5_PendingKeys ==
    /\ DOMAIN values \subseteq Range(inputs)
    /\ Cardinality(DOMAIN values) <= Len(inputs)
    /\ (committed => DOMAIN values = Range(inputs))

\* C5 witness: a two-input phase with exactly one value recorded, after a
\* call that tried an undeclared or used label.
C5_Witness ==
    /\ Len(inputs) = 2 /\ Cardinality(DOMAIN values) = 1
    /\ last.op \in {"add", "add_serial"} /\ ~last.res.ok

\* A slice repeats a label.
HasRepeat(s) == \E i, j \in 1..Len(s) : i # j /\ s[i] = s[j]

\* C6. new fails with InitFail when the input slice is empty, the challenge
\* slice is empty or the input slice repeats a label, and then no Decree and
\* no Merlin transcript exist; for all other arguments it succeeds with no
\* values, committed false and the challenges exactly as given.
C6_NewValidation ==
    last.op = "new" =>
        IF phaseInputs = <<>> \/ phaseChallenges = <<>> \/ HasRepeat(phaseInputs)
        THEN /\ ~last.res.ok
             /\ last.res.err.err_type = "InitFail"
             /\ ~constructed
             /\ transcript = <<>>
        ELSE /\ last.res.ok
             /\ constructed
             /\ DOMAIN values = {}
             /\ ~committed
             /\ challenges = phaseChallenges
             /\ Range(inputs) = Range(phaseInputs)
             /\ Len(transcript) = 1 /\ transcript[1].op = "new"

\* C6 witness: new has refused an input slice that repeats a label.
C6_Witness ==
    /\ last.op = "new" /\ ~last.res.ok
    /\ Len(phaseInputs) = 2 /\ HasRepeat(phaseInputs)
    /\ phaseChallenges # <<>>

\* The fields of the Decree are left as they were.
DecreeUnchanged == UNCHANGED << inputs, challenges, values, transcript, committed >>

\* The latest call failed with this error.
FailedWith(s, e) == ~s.res.ok /\ s.res.err = e

\* The step is the call d.add_serial(label, input), d.add(label, input) or
\* d.get_challenge(challenge, dest).
AddSerialStep(label, input) ==
    last'.op = "add_serial" /\ last'.label = label /\ DoAddSerial(label, input)

AddStep(label, input) ==
    last'.op = "add" /\ last'.label = label /\ DoAdd(label, input)

GetChallengeStep(challenge, destlen) ==
    last'.op = "get_challenge" /\ last'.label = challenge /\ DoGetChallenge(challenge, destlen)

\* C7 as stated: while the phase is not committed, every add / add_serial
\* with a label that is not an input of the phase fails with InvalidLabel
\* ("Invalid label") and records no value.
C7_Original ==
    [][\A label \in Labels :
          constructed /\ ~committed /\ label \notin Range(inputs) =>
              /\ \A input \in SerialInputs :
                    AddSerialStep(label, input) =>
                        /\ FailedWith(last', new_invalid_label("Invalid label"))
                        /\ values' = values
              /\ \A input \in InscribeInputs :
                    AddStep(label, input) =>
                        /\ FailedWith(last', new_invalid_label("Invalid label"))
                        /\ values' = values]_vars

\* C7, amended: while the phase is not committed, every add / add_serial with
\* a label that is not an input of the phase and a value that serializes or
\* inscribes successfully fails with InvalidLabel ("Invalid label"); with any
\* value, the call records nothing.
C7_InvalidLabel ==
    [][\A label \in Labels :
          constructed /\ ~committed /\ label \notin Range(inputs) =>
              /\ \A input \in SerialInputs :
                    AddSerialStep(label, input) =>
                        /\ to_bytes(input).ok =>
                              FailedWith(last', new_invalid_label("Invalid label"))
                        /\ ~last'.res.ok
                        /\ DecreeUnchanged
              /\ \A input \in InscribeInputs :
                    AddStep(label, input) =>
                        /\ get_inscription(input).ok =>
                              FailedWith(last', new_invalid_label("Invalid label"))
                        /\ ~last'.res.ok
                        /\ DecreeUnchanged]_vars

\* C7 witness: an add / add_serial with an undeclared label has failed with
\* "Invalid label" in a phase that is not committed.
C7_Witness ==
    /\ constructed /\ ~committed
    /\ last.op \in {"add", "add_serial"}
    /\ last.label \notin Range(inputs)
    /\ FailedWith(last, new_invalid_label("Invalid label"))

\* C8 as stated: while the phase is not committed, every add / add_serial
\* with a declared label that already has a value fails with InvalidLabel
\* ("Label already used") and the recorded value is kept.
C8_Original ==
    [][\A label \in Labels :
          constructed /\ ~committed /\ label \in Range(inputs) /\ label \in DOMAIN values =>
              /\ \A input \in SerialInputs :
                    AddSerialStep(label, input) =>
                        /\ FailedWith(last', new_invalid_label("Label already used"))
                        /\ values' = values
              /\ \A input \in InscribeInputs :
                    AddStep(label, input) =>
                        /\ FailedWith(last', new_invalid_label("Label already used"))
                        /\ values' = values]_vars

\* C8, amended: while the phase is not committed, every add / add_serial with
\* a declared label that already has a value, and a value that serializes or
\* inscribes successfully, fails with InvalidLabel ("Label already used");
\* with any value, the call fails and the value recorded first is kept.
C8_LabelAlreadyUsed ==
    [][\A label \in Labels :
          constructed /\ ~committed /\ label \in Range(inputs) /\ label \in DOMAIN values =>
              /\ \A input \in SerialInputs :
                    AddSerialStep(label, input) =>
                        /\ to_bytes(input).ok =>
                              FailedWith(last', new_invalid_label("Label already used"))
                        /\ ~last'.res.ok
                        /\ DecreeUnchanged
              /\ \A input \in InscribeInputs :
                    AddStep(label, input) =>
                        /\ get_inscription(input).ok =>
                              FailedWith(last', new_invalid_label("Label already used"))
                        /\ ~last'.res.ok
                        /\ DecreeUnchanged]_vars

\* C8 witness: a second add / add_serial for a label has failed with "Label
\* already used", the phase still waiting for another input.
C8_Witness ==
    /\ constructed /\ ~committed
    /\ last.op \in {"add", "add_serial"}
    /\ last.label \in DOMAIN values
    /\ FailedWith(last, new_invalid_label("Label already used"))

\* C9. No input is added after the commit: once every declared input of the
\* phase has been supplied, every add / add_serial whose value serializes or
\* inscribes successfully fails with General ("Cannot add values after
\* commitment"), whatever its label, and changes nothing.
C9_NoAddAfterCommit ==
    [][\A label \in Labels :
          constructed /\ AllSupplied /\ last'.op \in {"add", "add_serial"} =>
              /\ \A input \in SerialInputs :
                    AddSerialStep(label, input) /\ to_bytes(input).ok =>
                        /\ FailedWith(last', new_general("Cannot add values after commitment"))
                        /\ DecreeUnchanged
              /\ \A input \in InscribeInputs :
                    AddStep(label, input) /\ get_inscription(input).ok =>
                        /\ FailedWith(last', new_general("Cannot add values after commitment"))
                        /\ DecreeUnchanged]_vars

\* C9 witness: an add / add_serial with an undeclared label has failed with
\* "Cannot add values after commitment" in a committed phase.
C9_Witness ==
    /\ constructed /\ AllSupplied /\ committed
    /\ last.op \in {"add", "add_serial"}
    /\ last.label \notin Range(inputs)
    /\ FailedWith(last, new_general("Cannot add values after commitment"))

\* C10. get_challenge while committed is false fails with General ("Missing
\* transcript parameters") for every label, and changes nothing.
C10_ChallengeNotReady ==
    [][\A challenge \in Labels, destlen \in DestLens :
          constructed /\ ~committed /\ GetChallengeStep(challenge, destlen) =>
              /\ ~AllSupplied
              /\ FailedWith(last', new_general("Missing transcript parameters"))
              /\ DecreeUnchanged]_vars

\* C10 witness: with one of two inputs supplied, a get_challenge for the
\* declared head challenge has failed with "Missing transcript parameters".
C10_Witness ==
    /\ constructed /\ ~committed
    /\ Len(inputs) = 2 /\ Cardinality(DOMAIN values) = 1
    /\ last.op = "get_challenge"
    /\ challenges # <<>> /\ last.label = challenges[1]
    /\ FailedWith(last, new_general("Missing transcript parameters"))

\* The step is the call d.extend(ins, chs).
ExtendStep(ins, chs) == last'.op = "extend" /\ DoExtend(ins, chs)

\* C11. In a committed phase with a challenge left, get_challenge with a label
\* that is not a challenge declared for the phase fails with InvalidChallenge
\* ("Requested challenge not in spec") and changes nothing.
C11_ChallengeNotInSpec ==
    [][\A challenge \in Labels, destlen \in DestLens :
          /\ constructed /\ committed /\ challenges # <<>>
          /\ challenge \notin Range(phaseChallenges)
          /\ GetChallengeStep(challenge, destlen)
          => /\ FailedWith(last', new_invalid_challenge("Requested challenge not in spec"))
             /\ DecreeUnchanged]_vars

\* C11 witness: in a committed phase with its challenge still to generate, a
\* get_challenge with an undeclared label has failed with "Requested challenge
\* not in spec".
C11_Witness ==
    /\ constructed /\ committed /\ challenges # <<>>
    /\ last.op = "get_challenge"
    /\ last.label \notin Range(phaseChallenges)
    /\ FailedWith(last, new_invalid_challenge("Requested challenge not in spec"))

\* C12 as stated: in a committed phase with a challenge left, get_challenge
\* with a label declared as a challenge of the phase that is not the head of
\* the challenges left fails with InvalidChallenge ("Challenge order
\* incorrect").
C12_Original ==
    [][\A challenge \in Labels, destlen \in DestLens :
          /\ constructed /\ committed /\ challenges # <<>>
          /\ challenge \in Range(phaseChallenges)
          /\ challenge # Head(challenges)
          /\ GetChallengeStep(challenge, destlen)
          => FailedWith(last', new_invalid_challenge("Challenge order incorrect"))]_vars

\* C13. In a drained phase (committed, every declared challenge generated)
\* get_challenge fails with InvalidChallenge ("No remaining challenges") for
\* every label and changes nothing.
C13_NoRemainingChallenges ==
    [][\A challenge \in Labels, destlen \in DestLens :
          /\ constructed /\ committed /\ emitted = phaseChallenges
          /\ GetChallengeStep(challenge, destlen)
          => /\ FailedWith(last', new_invalid_challenge("No remaining challenges"))
             /\ DecreeUnchanged]_vars

\* C13 witness: after both challenges of a phase were generated, a
\* get_challenge for a declared label has failed with "No remaining
\* challenges".
C13_Witness ==
    /\ constructed /\ committed
    /\ Len(phaseChallenges) = 2 /\ emitted = phaseChallenges
    /\ last.op = "get_challenge" /\ last.label \in Range(phaseChallenges)
    /\ FailedWith(last, new_invalid_challenge("No remaining challenges"))

\* C14. A successful get_challenge(label, dest) makes exactly one call on the
\* Merlin transcript, challenge_bytes with tag label and the length of dest,
\* removes exactly the head of the challenges left, and leaves inputs, values
\* and committed as they were.
C14_ChallengeEffect ==
    [][\A challenge \in Labels, destlen \in DestLens :
          GetChallengeStep(challenge, destlen) /\ last'.res.ok =>
              /\ Len(transcript') = Len(transcript) + 1
              /\ SubSeq(transcript', 1, Len(transcript)) = transcript
              /\ transcript'[Len(transcript')].op = "challenge_bytes"
              /\ transcript'[Len(transcript')].label = challenge
              /\ transcript'[Len(transcript')].len = destlen
              /\ challenges # <<>> /\ challenge = challenges[1]
              /\ challenges' = SubSeq(challenges, 2, Len(challenges))
              /\ UNCHANGED << inputs, values, committed >>]_vars

\* C14 witness: the first of two declared challenges has just been generated
\* into the shorter buffer.
C14_Witness ==
    /\ last.op = "get_challenge" /\ last.res.ok
    /\ Len(phaseChallenges) = 2 /\ Len(challenges) = 1
    /\ transcript[Len(transcript)].op = "challenge_bytes"
    /\ transcript[Len(transcript)].len = 16

\* C15. extend fails with ExtendFail ("Cannot extend Decree until all
\* challenges generated") whenever committed is false or a declared challenge
\* has not been generated, whatever its arguments, and changes nothing.
C15_ExtendNotDrained ==
    [][/\ last'.op = "extend"
       /\ constructed
       /\ (~committed \/ ~AllSupplied \/ emitted # phaseChallenges)
       => /\ FailedWith(last', new_extend_fail(
                 "Cannot extend Decree until all challenges generated"))
          /\ DecreeUnchanged]_vars

\* C15 witness: extend has failed with "Cannot extend Decree until all
\* challenges generated" in a committed phase with one of its two challenges
\* generated.
C15_Witness ==
    /\ constructed /\ committed
    /\ Len(phaseChallenges) = 2 /\ Len(emitted) = 1
    /\ last.op = "extend"
    /\ FailedWith(last, new_extend_fail("Cannot extend Decree until all challenges generated"))

\* Strictly ascending in the order of str.
IsSorted(s) == \A i, j \in 1..Len(s) : i < j => str_lt(s[i], s[j])

\* The phase is drained: every declared input supplied, the values committed
\* and every declared challenge generated.
Drained == constructed /\ AllSupplied /\ committed /\ emitted = phaseChallenges

\* C16. In a drained phase, extend with an empty input slice or an empty
\* challenge slice fails with ExtendFail, and extend with non-empty slices
\* whose input slice repeats a label fails with InitFail.
C16_ExtendArguments ==
    [][last'.op = "extend" /\ Drained =>
          \A ins \in InputSlices, chs \in ChallengeSlices :
              /\ (ins = <<>> \/ chs = <<>> \/ HasRepeat(ins))
              /\ DoExtend(ins, chs)
              => /\ ~last'.res.ok
                 /\ last'.res.err.err_type =
                        IF ins = <<>> \/ chs = <<>> THEN "ExtendFail" ELSE "InitFail"]_vars

\* C16 witness: in a drained phase, extend with a repeated input label has
\* failed with InitFail.
C16_Witness ==
    /\ Drained
    /\ last.op = "extend"
    /\ FailedWith(last, new_init_fail("Inputs must be distinct"))

\* C17 as stated: in a drained phase extend succeeds exactly when new would
\* succeed on the same arguments, and when it fails it reports the error kind
\* new reports, InitFail.
C17_Original ==
    [][last'.op = "extend" /\ Drained =>
          \A ins \in InputSlices, chs \in ChallengeSlices :
              DoExtend(ins, chs) =>
                  LET n == new(transcript[1].label, ins, chs)
                  IN  /\ last'.res.ok <=> n.ok
                      /\ ~last'.res.ok =>
                             /\ last'.res.err.err_type = n.err.err_type
                             /\ last'.res.err.err_type = "InitFail"]_vars

\* C17. In a drained phase extend succeeds exactly when new would succeed on
\* the same arguments; for a repeated input label both report InitFail, and
\* for an empty input or challenge slice extend reports ExtendFail where new
\* reports InitFail.
C17_ExtendValidation ==
    [][last'.op = "extend" /\ Drained =>
          \A ins \in InputSlices, chs \in ChallengeSlices :
              DoExtend(ins, chs) =>
                  LET n == new(transcript[1].label, ins, chs)
                  IN  /\ last'.res.ok <=> n.ok
                      /\ ~last'.res.ok =>
                             /\ n.err.err_type = "InitFail"
                             /\ last'.res.err.err_type =
                                    IF ins = <<>> \/ chs = <<>>
                                    THEN "ExtendFail" ELSE "InitFail"]_vars

\* C17 witness: in a drained phase, extend with an empty input slice has
\* failed with ExtendFail.
C17_Witness ==
    /\ Drained
    /\ last.op = "extend"
    /\ FailedWith(last, new_extend_fail("Must specify at least one input"))

\* C18. A successful extend leaves the Merlin transcript as it was, sets the
\* inputs to the new labels sorted and the challenges to the new list, empties
\* the values and sets committed to false.
C18_ExtendEffect ==
    [][last'.op = "extend" /\ last'.res.ok =>
          \A ins \in InputSlices, chs \in ChallengeSlices :
              DoExtend(ins, chs) =>
                  /\ transcript' = transcript
                  /\ Len(inputs') = Len(ins)
                  /\ Range(inputs') = Range(ins)
                  /\ IsSorted(inputs')
                  /\ challenges' = chs
                  /\ DOMAIN values' = {}
                  /\ committed' = FALSE]_vars

\* C18 witness: extend has succeeded with the input labels "b", "ab" in
\* descending order, after a phase that had recorded a value.
C18_Witness ==
    /\ last.op = "extend" /\ last.res.ok
    /\ phaseStart > 1
    /\ phaseInputs = << <<2>>, <<1, 2>> >>
    /\ inputs = << <<1, 2>>, <<2>> >>
    /\ DOMAIN values = {} /\ ~committed

\* The Decree after add_input(l, vals[l]) for the labels l of ls in turn.
RECURSIVE FreshFill(_, _, _)
FreshFill(d, ls, vals) ==
    IF ls = <<>> THEN d
    ELSE FreshFill(add_input(d, Head(ls), vals[Head(ls)]).decree, Tail(ls), vals)

\* The Decree after the get_challenge calls recorded in the entries sq.
RECURSIVE FreshDrain(_, _)
FreshDrain(d, sq) ==
    IF sq = <<>> THEN d
    ELSE FreshDrain(get_challenge(d, Head(sq).label, Head(sq).len).decree, Tail(sq))

\* The history of a fresh Decree::new(name, I2, C2) given the values of the
\* current phase and asked for the challenges the current phase has generated.
FreshHistory ==
    LET d0 == new(transcript[1].label, phaseInputs, phaseChallenges).decree
        d1 == FreshFill(d0, added, values)
        sq == SubSeq(transcript, Len(transcript) - Len(emitted) + 1, Len(transcript))
    IN  FreshDrain(d1, sq).transcript

\* The history of the transcript up to the latest successful extend.
EarlierHistory == SubSeq(transcript, 1, phaseStart)

\* C19. Phase chaining: no call shortens or rewrites the history of the Merlin
\* transcript, and at each challenge of a phase entered by extend the history
\* is the complete history of the earlier phase (its new, its appended inputs
\* and its challenges), a non-empty proper prefix, followed by what a fresh
\* Decree::new(name, I2, C2) with the same values appends after its new; so it
\* differs from the history of that fresh transcript.
C19_PhaseChaining ==
    /\ [][constructed =>
             /\ Len(transcript) <= Len(transcript')
             /\ SubSeq(transcript', 1, Len(transcript)) = transcript]_vars
    /\ [](constructed /\ phaseStart > 1 /\ emitted # <<>> =>
             /\ phaseStart < Len(transcript)
             /\ EarlierHistory[1].op = "new"
             /\ \E k \in 2..phaseStart : EarlierHistory[k].op = "append_message"
             /\ EarlierHistory[phaseStart].op = "challenge_bytes"
             /\ transcript = EarlierHistory \o Tail(FreshHistory)
             /\ transcript # FreshHistory)

\* C19 witness: a challenge of the second phase has just been generated.
C19_Witness ==
    /\ constructed /\ phaseStart > 1
    /\ last.op = "get_challenge" /\ last.res.ok
    /\ emitted = phaseChallenges
    /\ Len(transcript) = phaseStart + Len(phaseInputs) + Len(phaseChallenges)

\* C20. A failed add or add_serial, whatever the kind of its error, leaves the
\* values, the inputs, the challenges, committed and the Merlin transcript as
\* they were.
C20_FailedAddFrame ==
    [][\A label \in Labels :
          /\ constructed /\ ~last'.res.ok
          /\ \/ \E input \in SerialInputs : AddSerialStep(label, input)
             \/ \E input \in InscribeInputs : AddStep(label, input)
          => DecreeUnchanged]_vars

\* C20 witness: with one of two declared inputs recorded, an add_serial with
\* an undeclared or already used label has failed with InvalidLabel.
C20_Witness ==
    /\ constructed /\ ~committed
    /\ Len(phaseInputs) = 2 /\ Len(added) = 1
    /\ last.op = "add_serial"
    /\ ~last.res.ok /\ last.res.err.err_type = "InvalidLabel"

\* C21. A failed get_challenge, whatever the kind of its error, leaves the
\* challenges left, the Merlin transcript (no challenge_bytes call, so dest is
\* not written), the values and committed as they were; if the phase is
\* committed with a challenge left, a get_challenge for the head label still
\* succeeds afterwards.
C21_FailedChallengeFrame ==
    [][\A challenge \in Labels, destlen \in DestLens :
          constructed /\ ~last'.res.ok /\ GetChallengeStep(challenge, destlen) =>
              /\ DecreeUnchanged
              /\ committed /\ emitted # phaseChallenges =>
                     \A len \in DestLens :
                         get_challenge(Decree(inputs', challenges', values',
                                              transcript', committed'),
                                       phaseChallenges[Len(emitted) + 1], len).ok]_vars

\* C21 witness: in a committed phase with both challenges left, a
\* get_challenge for the second one has failed.
C21_Witness ==
    /\ constructed /\ committed
    /\ Len(phaseChallenges) = 2 /\ emitted = <<>>
    /\ last.op = "get_challenge" /\ last.label = phaseChallenges[2]
    /\ FailedWith(last, new_invalid_challenge("Challenge order incorrect"))

\* Slices new and extend accept: non-empty, no input label twice.
ValidInputSlices == { ins \in InputSlices : ins # <<>> /\ ~HasRepeat(ins) }
ValidChallengeSlices == { chs \in ChallengeSlices : chs # <<>> }

\* C22. A failed extend, with ExtendFail or InitFail, leaves the inputs, the
\* challenges, the values, committed and the Merlin transcript as they were; a
\* drained phase stays drained and an extend with valid arguments succeeds
\* afterwards.
C22_FailedExtendFrame ==
    [][last'.op = "extend" /\ ~last'.res.ok =>
          /\ last'.res.err.err_type \in { "ExtendFail", "InitFail" }
          /\ DecreeUnchanged
          /\ Drained =>
                 /\ Drained'
                 /\ \A ins \in ValidInputSlices, chs \in ValidChallengeSlices :
                        extend(Decree(inputs', challenges', values',
                                      transcript', committed'), ins, chs).ok]_vars

\* C22 witness: in a drained phase, extend with an empty challenge slice has
\* failed and the phase is still drained.
C22_Witness ==
    /\ Drained
    /\ last.op = "extend"
    /\ FailedWith(last, new_extend_fail("Must specify at least one challenge"))
    /\ DOMAIN values # {}

RECURSIVE SupplyAll(_, _)
SupplyAll(d, ls) ==
    IF ls = <<>> THEN [ok |-> TRUE, decree |-> d]
    ELSE LET r == add_serial(d, Head(ls), [ty |-> "u32", v |-> 270])
         IN  IF r.ok THEN SupplyAll(r.decree, Tail(ls))
             ELSE [ok |-> FALSE, decree |-> r.decree]

\* The calls get_challenge(c, dest) for the labels c of cs in turn.
RECURSIVE RequestAll(_, _)
RequestAll(d, cs) ==
    IF cs = <<>> THEN [ok |-> TRUE, decree |-> d]
    ELSE LET r == get_challenge(d, Head(cs), 32)
         IN  IF r.ok THEN RequestAll(r.decree, Tail(cs))
             ELSE [ok |-> FALSE, decree |-> r.decree]

\* The declared inputs of the phase that have no value yet, each once.
Missing == SelectSeq(sort(phaseInputs), LAMBDA l : l \notin Range(added))

\* The declared challenges not yet generated, in declared order.
Remaining == SubSeq(phaseChallenges, Len(emitted) + 1, Len(phaseChallenges))

\* C24. No failure makes the Decree unrecoverable: in every reachable state of
\* a constructed Decree, also after failed calls, supplying each missing
\* declared input once and then requesting the remaining challenges in
\* declared order succeeds call by call and ends in the drained state, where
\* extend with valid arguments succeeds.  Every call is a total function and
\* is computed to its end.
C24_Recoverable ==
    constructed =>
        LET filled  == SupplyAll(Self, Missing)
            drained == RequestAll(filled.decree, Remaining)
        IN  /\ filled.ok
            /\ filled.decree.committed
            /\ drained.ok
            /\ drained.decree.committed /\ drained.decree.challenges = <<>>
            /\ \A ins \in ValidInputSlices, chs \in ValidChallengeSlices :
                   extend(drained.decree, ins, chs).ok

\* C24 witness: after a failed call, one of two declared inputs and both
\* challenges are still missing.
C24_Witness ==
    /\ constructed /\ ~last.res.ok
    /\ Len(phaseInputs) = 2 /\ Len(Missing) = 1
    /\ Len(Remaining) = 2

\* C25 as stated: when the serializer fails inside add_serial, or the
\* inscription of the value fails inside add, the call returns an error of
\* kind General and records nothing for the label.
C25_Original ==
    [][\A label \in Labels :
          /\ constructed
          /\ \/ \E input \in SerialInputs :
                    AddSerialStep(label, input) /\ ~to_bytes(input).ok
             \/ \E input \in InscribeInputs :
                    AddStep(label, input) /\ ~get_inscription(input).ok
          => /\ ~last'.res.ok
             /\ last'.res.err.err_type = "General"
             /\ values' = values]_vars

(* ------------- get_inscription on its own: derived structs ------------ *)

\* The fields a struct can declare at position i: the identifier of the field
\* is its own (x, y, ...), its sort name is its identifier or the override
\* #[inscribe_name(a)], and it is serialized (a u32, or a type BCS rejects),
\* skipped, or recursed into (a Point, one of InscribeInputs).
MemberInfoAt(i) ==
    { [name_ident |-> << 23 + i >>, sort_ident |-> s, handling |-> h.handling,
       val |-> h.val] :
        s \in { << 23 + i >>, <<1>> },
        h \in { [handling |-> "Serialize", val |-> v] :
                    v \in { [ty |-> "u32", v |-> 10] } \cup SerialInputs }
              \cup { [handling |-> "Skip", val |-> v] :
                        v \in { [ty |-> "u32", v |-> 10], [ty |-> "u32", v |-> 270] } }
              \cup { [handling |-> "Recurse", val |-> v] : v \in InscribeInputs } }

\* The named fields of a struct, in declaration order.
RECURSIVE MemberLists(_)
MemberLists(n) ==
    IF n = 0 THEN { <<>> }
    ELSE LET shorter == MemberLists(n - 1)
         IN  shorter \cup { Append(m, f) : m \in { t \in shorter : Len(t) = n - 1 },
                                          f \in MemberInfoAt(n) }

\* What get_additional returns: the default of the trait, the bytes of a
\* user-supplied method, or the error of a user-supplied method.
Additionals ==
    { get_additional_default,
      [ok |-> TRUE, err |-> NoError, val |-> RawBytes(<<65, 100>>)],
      [ok |-> FALSE, err |-> new_general("additional data unavailable"), val |-> NoData] }

\* The values get_inscription is called on: mark "InscribeTest".
Subjects ==
    { [mark |-> <<6>>, members |-> m, addl |-> a] :
        m \in MemberLists(MaxMembers), a \in Additionals }

\* One call of the derived get_inscription on the value.
GetInscription ==
    /\ subject # NoSubject
    /\ ~inscribed.called
    /\ inscribed' = LET r == get_inscription(subject)
                    IN  [called |-> TRUE, ok |-> r.ok, err |-> r.err, val |-> r.val]
    /\ UNCHANGED << subject, ast, derived, decreeVars, pairVars >>

InitInscribe ==
    /\ DecreeInit
    /\ PairIdle
    /\ subject \in Subjects
    /\ inscribed = NotCalled
    /\ DeriveIdle

NextInscribe == GetInscription

SpecInscribe == InitInscribe /\ [][NextInscribe]_vars

\* The declarations that list the same fields in another order.
Reorderings(members) ==
    LET n == Len(members)
    IN  { [i \in 1..n |-> members[p[i]]] :
            p \in { q \in [1..n -> 1..n] : \A i, j \in 1..n : q[i] = q[j] => i = j } }

\* What a field that is not skipped gives the hash: its serialization, or its
\* own inscription.
Contribution(f) ==
    IF f.handling = "Serialize" THEN to_bytes(f.val).val
    ELSE get_inscription(f.val).val

\* The fields of a declaration that are not skipped.
NonSkipped(members) ==
    { i \in 1..Len(members) : members[i].handling # "Skip" }

\* C26 as stated: get_inscription absorbs the contributions of the fields that
\* are not skipped in ascending order of their sort keys, whatever the order
\* of declaration: a contribution of a field with a smaller sort key comes
\* first, every such field contributes, and a declaration that lists the same
\* fields in another order absorbs the same sequence of inputs.
C26_Original ==
    inscribed.called /\ inscribed.ok
    => LET absorbed == inscribed.val.absorbed
           fields == NonSkipped(subject.members)
       IN  /\ Len(absorbed) = Cardinality(fields) + 1
           /\ \E at \in [fields -> 1..(Len(absorbed) - 1)] :
                 /\ \A i, j \in fields : at[i] = at[j] => i = j
                 /\ \A i \in fields : absorbed[at[i]] = Contribution(subject.members[i])
                 /\ \A i, j \in fields :
                       str_lt(subject.members[i].sort_ident,
                              subject.members[j].sort_ident) => at[i] < at[j]
           /\ \A m \in Reorderings(subject.members) :
                 LET r == get_inscription([subject EXCEPT !.members = m])
                 IN  r.ok /\ r.val.absorbed = absorbed

\* No two fields of the declaration have the same sort key.
DistinctSortKeys(members) ==
    \A i, j \in 1..Len(members) :
        members[i].sort_ident = members[j].sort_ident => i = j

\* The declaration without its Skip fields.
WithoutSkipped(members) == SelectSeq(members, LAMBDA f : f.handling # "Skip")

\* The values a Skip field can hold.
SkippedValues == { [ty |-> "u32", v |-> 10], [ty |-> "u32", v |-> 270] }

\* The same declaration with other values in its Skip fields.
SkipVariants(members) ==
    { m \in [1..Len(members) -> UNION { MemberInfoAt(i) : i \in 1..Len(members) }] :
        \A i \in 1..Len(members) :
            IF members[i].handling = "Skip"
            THEN m[i] \in { [members[i] EXCEPT !.val = v] : v \in SkippedValues }
            ELSE m[i] = members[i] }

\* C27 as stated: a Skip field contributes nothing to the hash: the inputs
\* absorbed for a value are the same whatever its Skip fields hold, and the
\* same as for the declaration without the Skip fields.
C27_Original ==
    inscribed.called /\ inscribed.ok
    => /\ \A m \in SkipVariants(subject.members) :
             LET r == get_inscription([subject EXCEPT !.members = m])
             IN  r.ok /\ r.val.absorbed = inscribed.val.absorbed
       /\ LET r == get_inscription(
                       [subject EXCEPT !.members = WithoutSkipped(subject.members)])
          IN  r.ok /\ r.val.absorbed = inscribed.val.absorbed

\* The fields the generated function reads, in the order in which it reads
\* them: for each sort name of the sorted member_vec, the entry of member_table.
Entries(self) ==
    LET names == member_vec(self.members)
    IN  [i \in 1..Len(names) |-> member_table(self.members)[names[i]]]

\* What the fields give the hash: one input for each entry that is not Skip.
FieldInputs(self) ==
    LET read == SelectSeq(Entries(self), LAMBDA e : e.handling # "Skip")
    IN  [i \in 1..Len(read) |-> Contribution(read[i])]

\* C28: a successful get_inscription absorbs the result of get_additional once,
\* as one input, after the inputs of the fields and as the last input before
\* finalisation, also when it is the empty vector and when no field gives an
\* input.
C28_AdditionalLast ==
    inscribed.called /\ inscribed.ok
    => /\ subject.addl.ok
       /\ inscribed.val.absorbed = Append(FieldInputs(subject), subject.addl.val)

C28_Witness ==
    /\ inscribed.called /\ inscribed.ok
    /\ subject.members # <<>>
    /\ \A i \in 1..Len(subject.members) : subject.members[i].handling = "Skip"
    /\ subject.addl = get_additional_default
    /\ inscribed.val.absorbed = << RawBytes(<<>>) >>

\* The entries that give the hash an input, in the order in which they do.
ReadEntries(self) == SelectSeq(Entries(self), LAMBDA e : e.handling # "Skip")

EntryFails(e) ==
    \/ e.handling = "Serialize" /\ ~to_bytes(e.val).ok
    \/ e.handling = "Recurse" /\ ~get_inscription(e.val).ok

\* The positions of the entries that fail.
Failing(self) == { p \in 1..Len(Entries(self)) : EntryFails(Entries(self)[p]) }

\* C30: get_inscription returns an error and no digest exactly when the
\* serializer fails on a Serialize field it reads, the get_inscription of a
\* Recurse field it reads fails, or get_additional fails; the error of a
\* nested inscription or of get_additional is returned as it is; otherwise
\* the result is a digest of 64 bytes.
C30_FailureSemantics ==
    inscribed.called
    => LET failing == Failing(subject)
           first == Entries(subject)[CHOOSE p \in failing : \A q \in failing : p <= q]
       IN  /\ ~inscribed.ok <=> (failing # {} \/ ~subject.addl.ok)
           /\ ~inscribed.ok
              => /\ inscribed.val = NoData
                 /\ failing # {} /\ first.handling = "Recurse"
                    => inscribed.err = get_inscription(first.val).err
                 /\ failing # {} /\ first.handling = "Serialize"
                    => inscribed.err.err_type = "General"
                 /\ failing = {} => inscribed.err = subject.addl.err
           /\ inscribed.ok
              => /\ inscribed.err = NoError
                 /\ inscribed.val.kind = "digest"
                 /\ ByteLen(inscribed.val) = 64

C30_Witness ==
    /\ inscribed.called /\ ~inscribed.ok
    /\ \E i \in 1..Len(subject.members) :
          /\ subject.members[i].handling = "Recurse"
          /\ ~subject.members[i].val.addl.ok
    /\ subject.addl.ok
    /\ inscribed.err = new_invalid_challenge("additional data unavailable")

(* ---------------- derive(Inscribe) on its own: declarations ----------- *)

\* The attribute lists a field is declared with: none, one handling, a sort
\* name (a, or x, the identifier of the first field), both, a handling that
\* does not exist, two handlings, two sort names.
FieldAttrs ==
    { <<>>,
      << Attr(INSCRIBE_HANDLING_IDENT, SKIP_IDENT) >>,
      << Attr(INSCRIBE_HANDLING_IDENT, SERIALIZE_IDENT) >>,
      << Attr(INSCRIBE_NAME_IDENT, <<1>>) >>,
      << Attr(INSCRIBE_NAME_IDENT, <<24>>) >>,
      << Attr("doc", <<>>), Attr(INSCRIBE_HANDLING_IDENT, RECURSE_IDENT),
         Attr(INSCRIBE_NAME_IDENT, <<1>>) >>,
      << Attr(INSCRIBE_HANDLING_IDENT, <<8>>) >>,
      << Attr(INSCRIBE_HANDLING_IDENT, SKIP_IDENT),
         Attr(INSCRIBE_HANDLING_IDENT, SERIALIZE_IDENT) >>,
      << Attr(INSCRIBE_NAME_IDENT, <<1>>), Attr(INSCRIBE_NAME_IDENT, <<3>>) >> }

\* The named fields of a declaration: field i is called x, y, ...
RECURSIVE FieldLists(_)
FieldLists(n) ==
    IF n = 0 THEN { <<>> }
    ELSE LET shorter == FieldLists(n - 1)
         IN  shorter \cup { Append(fs, [ident |-> << 23 + n >>, attrs |-> a]) :
                               fs \in { t \in shorter : Len(t) = n - 1 },
                               a \in FieldAttrs }

\* The outer attribute lists of a type: none, a mark method, an additional
\* data method, both, two mark methods, two additional data methods.
TypeAttrs ==
    { <<>>,
      << Attr(INSCRIBE_MARK_IDENT, <<13>>) >>,
      << Attr(INSCRIBE_ADDL_IDENT, <<6>>) >>,
      << Attr(INSCRIBE_ADDL_IDENT, <<6>>), Attr(INSCRIBE_MARK_IDENT, <<13>>) >>,
      << Attr(INSCRIBE_MARK_IDENT, <<13>>), Attr(INSCRIBE_MARK_IDENT, <<14>>) >>,
      << Attr(INSCRIBE_ADDL_IDENT, <<6>>), Attr(INSCRIBE_ADDL_IDENT, <<7>>) >> }

\* The declarations handed to the derive: structs named T with named fields,
\* a tuple struct and an enum.
Asts ==
    { [ident |-> <<20>>, data |-> "Struct", fields |-> "Named", attrs |-> a, named |-> fs] :
        a \in TypeAttrs, fs \in FieldLists(MaxMembers) }
    \cup { [ident |-> <<20>>, data |-> "Struct", fields |-> "Unnamed", attrs |-> <<>>,
            named |-> <<>>],
           [ident |-> <<20>>, data |-> "Enum", fields |-> "none", attrs |-> <<>>,
            named |-> <<>>] }

\* The compiler expands #[derive(Inscribe)] on the declaration.
Derive ==
    /\ ast # NoAst
    /\ ~derived.ran
    /\ derived' = LET r == inscribe_derive(ast)
                  IN  [ran |-> TRUE, ok |-> r.ok, panic |-> r.panic, val |-> r.val]
    /\ UNCHANGED << ast, subject, inscribed, decreeVars, pairVars >>

InitDerive ==
    /\ DecreeInit
    /\ PairIdle
    /\ subject = NoSubject
    /\ inscribed = NotCalled
    /\ ast \in Asts
    /\ derived = NotDerived

NextDerive == Derive

SpecDerive == InitDerive /\ [][NextDerive]_vars

\* The markers of one kind on a field, and on the type.
FieldMarkers(field, path) == { i \in 1..Len(field.attrs) : field.attrs[i].path = path }

\* Some single-valued marker is declared more than once: on a field, or on
\* the type.
RepeatedFieldMarker(d) ==
    \E i \in 1..Len(d.named) :
        \/ Cardinality(FieldMarkers(d.named[i], INSCRIBE_HANDLING_IDENT)) > 1
        \/ Cardinality(FieldMarkers(d.named[i], INSCRIBE_NAME_IDENT)) > 1

RepeatedTypeMarker(d) ==
    \/ Cardinality(AttrsNamed(d, INSCRIBE_MARK_IDENT)) > 1
    \/ Cardinality(AttrsNamed(d, INSCRIBE_ADDL_IDENT)) > 1

\* C31 as stated: a declaration with two handling markers or two sort name
\* markers on a field, or two mark markers or two additional data markers on
\* the type, makes the derive fail: no inscription function is produced.
C31_Original ==
    derived.ran /\ (RepeatedFieldMarker(ast) \/ RepeatedTypeMarker(ast)) => ~derived.ok

\* C32 as stated: the fields of every declaration for which the derive
\* produces an inscription function have pairwise distinct sort keys.
C32_Original ==
    derived.ran /\ derived.ok => DistinctSortKeys(derived.val.members)

\* C33: in the impl the derive produces, a field without handling marker is
\* handled as Recurse, a field without inscribe_name has its identifier as
\* sort key, a type without inscribe_mark has its name as mark, and a type
\* without inscribe_addl has the empty byte vector as additional data.
C33_SchemaDefaults ==
    derived.ran /\ derived.ok
    => /\ Len(derived.val.members) = Len(ast.named)
       /\ \A i \in 1..Len(ast.named) :
             /\ derived.val.members[i].name_ident = ast.named[i].ident
             /\ FieldMarkers(ast.named[i], INSCRIBE_HANDLING_IDENT) = {}
                => derived.val.members[i].handling = "Recurse"
             /\ FieldMarkers(ast.named[i], INSCRIBE_NAME_IDENT) = {}
                => derived.val.members[i].sort_ident = ast.named[i].ident
       /\ AttrsNamed(ast, INSCRIBE_MARK_IDENT) = {}
          => \A m \in { <<13>>, <<14>> } : get_mark_impl(derived.val, m) = ast.ident
       /\ AttrsNamed(ast, INSCRIBE_ADDL_IDENT) = {}
          => \A r \in Additionals :
                get_additional_impl(derived.val, r)
                    = [ok |-> TRUE, err |-> NoError, val |-> RawBytes(<<>>)]

C33_Witness ==
    /\ derived.ran /\ derived.ok
    /\ ast.attrs = <<>>
    /\ Len(ast.named) = 2
    /\ ast.named[1].attrs = <<>>
    /\ FieldMarkers(ast.named[2], INSCRIBE_HANDLING_IDENT) = {}
    /\ FieldMarkers(ast.named[2], INSCRIBE_NAME_IDENT) # {}
    /\ derived.val.members[1] = [name_ident |-> <<24>>, sort_ident |-> <<24>>,
                                 handling |-> "Recurse"]
    /\ derived.val.members[2].handling = "Recurse"
    /\ derived.val.get_mark = implement_default_mark(ast)
    /\ derived.val.get_additional = NoMethod

\* How often the generated function reads the field called ident and gives
\* it to the hash.
TimesAbsorbed(self, ident) ==
    Cardinality({ p \in 1..Len(ReadEntries(self)) : ReadEntries(self)[p].name_ident = ident })

\* C38 as stated: one successful get_inscription absorbs each field that is
\* not Skip exactly once: none is left out and none is absorbed twice.
C38_Original ==
    inscribed.called /\ inscribed.ok
    => /\ \A i \in NonSkipped(subject.members) :
             TimesAbsorbed(subject, subject.members[i].name_ident) = 1
       /\ Len(inscribed.val.absorbed) = Cardinality(NonSkipped(subject.members)) + 1

\* The append_message calls a step makes.
StepAppends ==
    { k \in (Len(transcript) + 1)..Len(transcript') : transcript'[k].op = "append_message" }

\* The step is a successful add / add_serial that records these bytes for
\* the label.
Recorded(label, bytes) ==
    \/ \E input \in SerialInputs :
          AddSerialStep(label, input) /\ to_bytes(input).ok /\ bytes = to_bytes(input).val
    \/ \E input \in InscribeInputs :
          AddStep(label, input) /\ get_inscription(input).ok
          /\ bytes = get_inscription(input).val

\* C34. Commit happens once per phase and absorbs the values of the phase:
\* a value is recorded only by a successful add / add_serial for a label that
\* has none yet, and the values are dropped only by a successful extend;
\* append_message is called only in the successful add / add_serial that
\* supplies the last missing input of a phase that has made no append_message
\* yet; that step makes one call per declared input label, with the bytes
\* recorded for the label in this phase, and none for another label; a
\* committed phase makes no further append_message.
C34_CommitOncePerPhase ==
    [][/\ values' # values =>
             \/ /\ last'.op = "extend" /\ last'.res.ok
                /\ DOMAIN values' = {}
             \/ /\ last'.op \in {"add", "add_serial"} /\ last'.res.ok
                /\ last'.label \notin DOMAIN values
                /\ DOMAIN values' = DOMAIN values \cup { last'.label }
                /\ \A l \in DOMAIN values : values'[l] = values[l]
                /\ Recorded(last'.label, values'[last'.label])
       /\ committed => StepAppends = {}
       /\ StepAppends # {} =>
             /\ last'.op \in {"add", "add_serial"} /\ last'.res.ok
             /\ ~committed /\ committed'
             /\ PhaseAppends = {}
             /\ Range(phaseInputs) \ DOMAIN values = { last'.label }
             /\ DOMAIN values \subseteq Range(added)
             /\ \A l \in Range(phaseInputs) :
                   /\ Cardinality({ k \in StepAppends : transcript'[k].label = l }) = 1
                   /\ \A k \in StepAppends :
                         transcript'[k].label = l =>
                             /\ transcript'[k].data = values'[l]
                             /\ l # last'.label => transcript'[k].data = values[l]
                             /\ l = last'.label => Recorded(l, transcript'[k].data)
             /\ \A k \in StepAppends : transcript'[k].label \in Range(phaseInputs)
             /\ Cardinality(StepAppends) = Len(phaseInputs)]_vars

\* C34 witness: the second phase is committed; its input label was given the serialized u32 in the first phase and an inscription in the
\* second, and the append_message of the second phase carries the inscription.
C34_Witness ==
    /\ committed /\ phaseStart > 1
    /\ Len(phaseInputs) = 1
    /\ \E j \in 1..phaseStart :
          /\ transcript[j].op = "append_message"
          /\ transcript[j].label = phaseInputs[1]
          /\ transcript[j].data.kind = "bytes"
    /\ \E k \in PhaseAppends :
          /\ transcript[k].label = phaseInputs[1]
          /\ transcript[k].data.kind = "digest"
    /\ Cardinality(PhaseAppends) = 1

\* C35. A challenge list may repeat a label: new and extend succeed with any
\* non-empty challenge list, given valid inputs (and a drained phase, for
\* extend); each successful get_challenge takes its label, one occurrence,
\* from the head of the challenges left; no other call but a successful
\* extend changes the challenges left; so the phase has no challenge left
\* exactly when as many get_challenge calls have succeeded as challenges
\* were declared.
C35_DuplicateChallenges ==
    [][/\ last'.op = "new" /\ ~HasRepeat(phaseInputs')
          /\ phaseInputs' # <<>> /\ phaseChallenges' # <<>>
          => last'.res.ok /\ challenges' = phaseChallenges'
       /\ last'.op = "extend" /\ Drained
          => \A ins \in ValidInputSlices, chs \in ValidChallengeSlices :
                DoExtend(ins, chs) => last'.res.ok /\ challenges' = chs
       /\ last'.op = "get_challenge" /\ last'.res.ok
          => /\ challenges = << last'.label >> \o challenges'
             /\ Len(emitted') = Len(emitted) + 1
       /\ ~(last'.op = "get_challenge" /\ last'.res.ok)
          /\ ~(last'.op \in {"new", "extend"} /\ last'.res.ok)
          => challenges' = challenges /\ emitted' = emitted
       /\ constructed'
          => /\ Len(emitted') + Len(challenges') = Len(phaseChallenges')
             /\ challenges' = <<>> <=> Len(emitted') = Len(phaseChallenges')]_vars

\* C35 witness: a phase declared with the same challenge label twice has
\* generated it twice, the second time from a list that still held it.
C35_Witness ==
    /\ last.op = "get_challenge" /\ last.res.ok
    /\ Len(phaseChallenges) = 2 /\ phaseChallenges[1] = phaseChallenges[2]
    /\ emitted = phaseChallenges
    /\ challenges = <<>>
    /\ Cardinality(PhaseSqueezes) = 2

\* The label was the tag of an append_message / of a challenge_bytes call of
\* an earlier phase.
UsedAsInputBefore(label) ==
    \E j \in 1..phaseStart :
        transcript[j].op = "append_message" /\ transcript[j].label = label

UsedAsChallengeBefore(label) ==
    \E j \in 1..phaseStart :
        transcript[j].op = "challenge_bytes" /\ transcript[j].label = label

\* The step is an add / add_serial for the label with a value that serializes
\* or inscribes.
SuppliesValue(label) ==
    \/ \E input \in SerialInputs : AddSerialStep(label, input) /\ to_bytes(input).ok
    \/ \E input \in InscribeInputs : AddStep(label, input) /\ get_inscription(input).ok

\* C36. Labels are scoped to the phase: in a phase that declares again an
\* input label of an earlier phase, the first add / add_serial for the label
\* succeeds and records the value; in a committed phase whose next challenge
\* is a label generated in an earlier phase, get_challenge for it succeeds.
C36_LabelsPerPhase ==
    [][\A label \in Labels :
          /\ /\ UsedAsInputBefore(label)
             /\ contains(inputs, label) /\ label \notin Range(added) /\ ~committed
             /\ SuppliesValue(label)
             => /\ last'.res.ok
                /\ label \in DOMAIN values'
                /\ added' = Append(added, label)
          /\ /\ UsedAsChallengeBefore(label)
             /\ committed /\ challenges # <<>> /\ challenges[1] = label
             /\ \E destlen \in DestLens : GetChallengeStep(label, destlen)
             => /\ last'.res.ok
                /\ challenges' = Tail(challenges)
                /\ emitted' = Append(emitted, label)]_vars

\* C36 witness: the second phase declares the input label and the challenge
\* label of the first again; the value has been added and the challenge
\* generated a second time.
C36_Witness ==
    /\ phaseStart > 1
    /\ last.op = "get_challenge" /\ last.res.ok
    /\ UsedAsChallengeBefore(last.label)
    /\ added # <<>> /\ UsedAsInputBefore(added[1])
    /\ \E k \in PhaseAppends : transcript[k].label = added[1]

\* C37. The committed flag changes at the boundaries of a phase only: it is
\* set only by a successful add / add_serial that supplies the one declared
\* input still missing, and cleared only by a successful extend; new,
\* get_challenge and every failed call leave it as it was.
C37_CommittedFlag ==
    [][/\ ~committed /\ committed'
          => /\ last'.op \in {"add", "add_serial"} /\ last'.res.ok
             /\ Range(inputs) \ DOMAIN values = { last'.label }
             /\ Range(inputs') \ DOMAIN values' = {}
       /\ committed /\ ~committed' => last'.op = "extend" /\ last'.res.ok
       /\ last'.op \in {"new", "get_challenge"} => committed' = committed
       /\ ~last'.res.ok => committed' = committed]_vars

\* C37 witness: the flag has been set, cleared by extend and set again by the
\* add that supplied the missing input of the second phase.
C37_Witness ==
    /\ phaseStart > 1
    /\ committed
    /\ last.op \in {"add", "add_serial"} /\ last.res.ok
    /\ Range(inputs) = DOMAIN values

\* C39. In every state of a constructed Decree the declared inputs are in
\* strictly ascending lexicographic order, so no label is repeated, and they
\* are the labels of the slice passed to new / extend, in whatever order the
\* caller passed them.
C39_InputsSortedDistinct ==
    constructed
    => /\ \A i \in 1..(Len(inputs) - 1) : str_lt(inputs[i], inputs[i + 1])
       /\ \A i, j \in 1..Len(inputs) : inputs[i] = inputs[j] => i = j
       /\ Range(inputs) = Range(phaseInputs)
       /\ Len(inputs) = Len(phaseInputs)

\* C39 witness: the caller passed two labels in descending order; the phase
\* has been committed and a challenge generated since.
C39_Witness ==
    /\ constructed
    /\ Len(phaseInputs) = 2 /\ str_lt(phaseInputs[2], phaseInputs[1])
    /\ inputs = << phaseInputs[2], phaseInputs[1] >>
    /\ last.op = "get_challenge" /\ last.res.ok

====
